---- MODULE Spec2Model ----
(***************************************************************************)
(* A model of the sketch board of satty (src/src/sketch_board.rs): the     *)
(* relm4 component whose update() handles one queued SketchBoardInput at a *)
(* time, routes input events to the active tool and to the board-level     *)
(* shortcuts, owns the annotation history (through the renderer) and runs  *)
(* the action list of every render result.                                 *)
(*                                                                         *)
(* The tools (crate::tools), the renderer with its history                 *)
(* (crate::femtovg_area) and the configuration (crate::configuration) are  *)
(* not part of the two source files; they are modelled from spec.md.       *)
(***************************************************************************)
EXTENDS Integers, Sequences, FiniteSets, TLC

\* ------------------------------------------------------------------ bounds
MaxDrawables == 2   \* drawables that can be committed in one run
MaxQueue == 1       \* messages the board has sent to itself and not handled yet
MaxWorkers == 2     \* I/O worker threads alive at once

\* ------------------------------------------------------- values and enums
Tools == {"Rectangle", "Text"}

Actions == {"SaveToClipboard", "SaveToFile", "SaveToFileAs", "Exit"}

Unmodified == [tag |-> "Unmodified", d |-> 0]
Redraw == [tag |-> "Redraw", d |-> 0]
StopPropagation == [tag |-> "StopPropagation", d |-> 0]
RedrawAndStopPropagation == [tag |-> "RedrawAndStopPropagation", d |-> 0]
Commit(d) == [tag |-> "Commit", d |-> d]

IsStop(r) == r.tag \in {"StopPropagation", "RedrawAndStopPropagation"}

Front(s) == SubSeq(s, 1, Len(s) - 1)

Range(s) == {s[i] : i \in 1..Len(s)}

\* ---------------------------------------------------------- configuration
\* APP_CONFIG: the fields sketch_board.rs reads.  A keybinding map sends a
\* character to a tool or to "none".
Chars == {"r", "t", "x", "0", "1", "2", "3", "4", "5", "6", "7", "8", "9"}

Digits == <<"0", "1", "2", "3", "4", "5", "6", "7", "8", "9">>

KeybindsPlain == [c \in Chars |-> CASE c = "r" -> "Rectangle" [] c = "t" -> "Text" [] OTHER -> "none"]

KeybindsDigit == [c \in Chars |-> CASE c = "r" -> "Rectangle" [] c = "t" -> "Text" [] c = "3" -> "Rectangle" [] OTHER -> "none"]

get_tool(keybinds, char) == keybinds[char]

\* Style::default(): the first colour and size, no fill, factor 1.
DefaultStyle == [color |-> 0, size |-> 0, fill |-> FALSE, annotation_size_factor |-> 1]

Config(early, file, copy, palette, keybinds, enter, escape, right) ==
  [early_exit |-> early, output_filename |-> file, copy_command |-> copy,
   palette_len |-> palette, keybinds |-> keybinds, actions_on_enter |-> enter,
   actions_on_escape |-> escape, actions_on_right_click |-> right]

\* ------------------------------------------------ history (in the renderer)
\* spec.md section 3: an ordered sequence of committed drawables plus a cursor.
\* A drawable is its identity, a number handed out by the tool that made it.
Visible(s) == SubSeq(s.drawables, 1, s.cursor)

RedoTail(s) == SubSeq(s.drawables, s.cursor + 1, Len(s.drawables))

renderer_call(s, name) == [s EXCEPT !.calls = Append(s.calls, name)]

renderer_commit(s, d) ==
  [renderer_call(s, "commit")
     EXCEPT !.drawables = Append(Visible(s), d),
            !.cursor = s.cursor + 1,
            !.discarded = s.discarded \cup Range(RedoTail(s))]

can_undo(s) == s.cursor > 0

renderer_undo(s) ==
  IF can_undo(s)
  THEN [renderer_call(s, "undo") EXCEPT !.cursor = s.cursor - 1]
  ELSE renderer_call(s, "undo")

can_redo(s) == s.cursor < Len(s.drawables)

renderer_redo(s) ==
  IF can_redo(s)
  THEN [renderer_call(s, "redo") EXCEPT !.cursor = s.cursor + 1]
  ELSE renderer_call(s, "redo")

can_reset(s) == Len(s.drawables) > 0

renderer_reset(s) == [renderer_call(s, "reset") EXCEPT !.drawables = <<>>, !.cursor = 0]

\* The renderer's dragging flag.
set_is_drag(s, on) ==
  [renderer_call(s, IF on THEN "set_is_drag(true)" ELSE "set_is_drag(false)")
     EXCEPT !.is_drag = on]

\* The request is recorded with the number of renderer calls made before it.
request_render(s, actions) ==
  [s EXCEPT !.requested = Append(s.requested, actions),
            !.requested_at = Append(s.requested_at, Len(s.calls))]

\* ------------------------------------------------------------------- tools
\* spec.md section 4.2: a tool is idle or has an in-progress edit; active()
\* and input_enabled() are true while it has one.  What a tool answers to an
\* input event is its own business: every answer the contract allows is a
\* possible outcome, chosen by the caller of these operators.
tool_log(s, tool, event) == [s EXCEPT !.tool_events = Append(s.tool_events, <<tool, event>>)]

tool_active(s) == s.editing[s.active_tool]

\* self.active_tool.borrow().active(), with the answer kept in the record of calls.
ask_active(s) == tool_log(s, s.active_tool, IF tool_active(s) THEN "active:true" ELSE "active:false")

input_enabled(s) == s.editing[s.active_tool]

fresh(s) == s.next_id <= MaxDrawables

InputOutcomes(s) ==
  IF tool_active(s)
  THEN {[r |-> Unmodified, e |-> TRUE], [r |-> Redraw, e |-> TRUE],
        [r |-> StopPropagation, e |-> TRUE], [r |-> RedrawAndStopPropagation, e |-> TRUE],
        [r |-> Redraw, e |-> FALSE], [r |-> Commit(s.next_id), e |-> FALSE]}
  ELSE {[r |-> Unmodified, e |-> FALSE], [r |-> StopPropagation, e |-> FALSE]}
       \cup (IF fresh(s)
             THEN {[r |-> Redraw, e |-> TRUE], [r |-> RedrawAndStopPropagation, e |-> TRUE],
                   [r |-> Commit(s.next_id), e |-> FALSE]}
             ELSE {})

UndoOutcomes(s) == {[r |-> Unmodified, e |-> TRUE], [r |-> Redraw, e |-> TRUE], [r |-> Redraw, e |-> FALSE]}

QuietOutcomes == {Unmodified, Redraw}

\* The tool's answer o (one of the outcomes above) takes effect.
tool_apply(s, o) ==
  [s EXCEPT !.editing[s.active_tool] = o.e,
            !.next_id = IF o.r.tag = "Commit" THEN s.next_id + 1 ELSE s.next_id]

\* handle_event(ToolEvent::Input(..)): the event is logged with the tool that got it.
tool_input(s, ie, o) ==
  [st |-> [tool_apply(tool_log(s, s.active_tool, ie.kind), o)
             EXCEPT !.tool_result = o.r, !.tool_pos = ie.pos],
   r |-> o.r]

\* handle_event(ToolEvent::Deactivated) and handle_deactivated(): an
\* in-progress edit is finalised as Commit(drawable), otherwise Unmodified.
tool_deactivated(s) ==
  IF s.editing[s.active_tool]
  THEN [st |-> [s EXCEPT !.editing[s.active_tool] = FALSE, !.next_id = s.next_id + 1],
        r |-> Commit(s.next_id)]
  ELSE [st |-> s, r |-> Unmodified]

set_im_context(s, tool, on) ==
  [tool_log(s, tool, IF on THEN "set_im_context(Some)" ELSE "set_im_context(None)")
     EXCEPT !.im_context[tool] = on]

\* handle_event(ToolEvent::StyleChanged(self.style)): the tool gets a copy of
\* the board's style as it is at the call.
style_event(s, tool) ==
  [tool_log(s, tool, "StyleChanged") EXCEPT !.style_sent = Append(s.style_sent, s.style)]

\* ---------------------------------------------------------------- messages
\* SketchBoardInput, flattened: every message has the same fields and the
\* ones its kind does not use keep their defaults.
Msg(kind, sub) ==
  [kind |-> kind, sub |-> sub, tool |-> "none", key |-> "none", code |-> 0,
   mod |-> "none", button |-> "none", pos |-> "none", dy |-> 0, txt |-> <<>>,
   actions |-> <<>>, value |-> 0]

KeyMsg(kind, key, code, mod) == [Msg(kind, "none") EXCEPT !.key = key, !.code = code, !.mod = mod]

\* A pointer position arrives in the coordinates of the canvas widget.
MouseMsg(type, button) == [Msg("Mouse", type) EXCEPT !.button = button, !.pos = "canvas"]

\* new_scroll_event: the position field carries the scroll delta (0, delta_y).
ScrollMsg(dy) == [Msg("Mouse", "Scroll") EXCEPT !.button = "Middle", !.pos = "delta", !.dy = dy]

ToolSelected(tool) == [Msg("ToolbarEvent", "ToolSelected") EXCEPT !.tool = tool]

\* ColorSelected, SizeSelected and AnnotationSizeChanged carry the new value.
StyleMsg(sub, value) == [Msg("ToolbarEvent", sub) EXCEPT !.value = value]

TextMsg(kind, sub, txt) == [Msg(kind, sub) EXCEPT !.txt = txt]

RenderResult(actions) == [Msg("RenderResult", "none") EXCEPT !.actions = actions]

Output(out, tool, index) == [out |-> out, tool |-> tool, index |-> index]

emit(s, o) == [s EXCEPT !.outputs = Append(s.outputs, o)]

\* sender.input(..): the message joins the component's own input channel.
sender_input(s, m) == [s EXCEPT !.queue = Append(s.queue, m)]

\* ------------------------------------------------------ the board's handlers
refresh_screen(s) == renderer_call(s, "queue_render")

deactivate_active_tool(s) ==
  IF tool_active(s)
  THEN LET t == tool_deactivated(tool_log(ask_active(s), s.active_tool, "handle_deactivated"))
       IN IF t.r.tag = "Commit"
          THEN [st |-> renderer_commit(t.st, t.r.d), r |-> TRUE]
          ELSE [st |-> t.st, r |-> FALSE]
  ELSE [st |-> ask_active(s), r |-> FALSE]

\* handle_action that asks for the render before it deactivates the tool.
handle_action_requests_first(s, actions) ==
  LET d == deactivate_active_tool(request_render(s, actions))
  IN [st |-> d.st, r |-> IF d.r THEN Redraw ELSE Unmodified]

handle_action(s, actions) ==
  LET d == deactivate_active_tool(s)
  IN [st |-> request_render(d.st, actions), r |-> IF d.r THEN Redraw ELSE Unmodified]

\* handle_undo without the question to the active tool: the history always moves.
handle_undo_unchecked(s, o) ==
  IF can_undo(s)
  THEN [st |-> renderer_undo(ask_active(s)), r |-> Redraw]
  ELSE [st |-> renderer_undo(ask_active(s)), r |-> Unmodified]

handle_undo(s, o) ==
  IF tool_active(s)
  THEN [st |-> tool_apply(tool_log(ask_active(s), s.active_tool, "handle_undo"), o), r |-> o.r]
  ELSE IF can_undo(s)
       THEN [st |-> renderer_undo(ask_active(s)), r |-> Redraw]
       ELSE [st |-> renderer_undo(ask_active(s)), r |-> Unmodified]

\* handle_redo that steps the history backwards instead of forwards.
handle_redo_undoes(s, o) ==
  IF tool_active(s)
  THEN [st |-> tool_apply(tool_log(ask_active(s), s.active_tool, "handle_redo"), o), r |-> o.r]
  ELSE IF can_redo(s)
       THEN [st |-> renderer_undo(ask_active(s)), r |-> Redraw]
       ELSE [st |-> renderer_undo(ask_active(s)), r |-> Unmodified]

handle_redo(s, o) ==
  IF tool_active(s)
  THEN [st |-> tool_apply(tool_log(ask_active(s), s.active_tool, "handle_redo"), o), r |-> o.r]
  ELSE IF can_redo(s)
       THEN [st |-> renderer_redo(ask_active(s)), r |-> Redraw]
       ELSE [st |-> renderer_redo(ask_active(s)), r |-> Unmodified]

\* handle_reset with || for |: a deactivation that committed skips the reset.
handle_reset_short_circuit(s) ==
  LET d == deactivate_active_tool(s)
  IN IF d.r
     THEN [st |-> d.st, r |-> Redraw]
     ELSE [st |-> renderer_reset(d.st), r |-> IF can_reset(d.st) THEN Redraw ELSE Unmodified]

handle_reset(s) ==
  LET d == deactivate_active_tool(s)
  IN [st |-> renderer_reset(d.st),
      r |-> IF d.r \/ can_reset(d.st) THEN Redraw ELSE Unmodified]

handle_resize(s) ==
  [st |-> request_render(renderer_call(s, "reset_size(0)"), s.cfg.actions_on_right_click),
   r |-> Unmodified]

handle_original_scale(s) ==
  [st |-> request_render(renderer_call(s, "reset_size(1)"), s.cfg.actions_on_right_click),
   r |-> Unmodified]

handle_toggle_toolbars_display(s) ==
  [st |-> emit(s, Output("ToggleToolbarsDisplay", "none", 0)), r |-> Unmodified]

\* ToolbarEvent::ToolSelected(tool); style and act are what the new tool
\* answers to StyleChanged (dropped by the board) and to Activated.
\* tool_selected that returns early when the selected tool is already active.
tool_selected_skips_same_tool(s, tool, style, act) ==
  IF tool = s.active_tool
  THEN [st |-> s, r |-> Unmodified]
  ELSE LET old == s.active_tool
           d == tool_deactivated(tool_log(s, old, "Deactivated"))
           s1 == set_im_context(d.st, old, FALSE)
           s2 == IF d.r.tag = "Commit" THEN renderer_commit(s1, d.r.d) ELSE s1
           deactivate_result == IF d.r.tag = "Commit" THEN Redraw ELSE d.r
           s3 == tool_log([s2 EXCEPT !.active_tool = tool], tool, "set_active_tool")
           s4 == set_im_context(s3, tool, TRUE)
           s5 == style_event(tool_log(s4, tool, "set_sender"), tool)
           s6 == [tool_log(s5, tool, "Activated") EXCEPT !.tool_result = act]
       IN [st |-> s6, r |-> IF act = Unmodified THEN deactivate_result ELSE act]

\* tool_selected that leaves the input context with the old tool.
tool_selected_keeps_old_context(s, tool, style, act) ==
  LET old == s.active_tool
      d == tool_deactivated(tool_log(s, old, "Deactivated"))
      s2 == IF d.r.tag = "Commit" THEN renderer_commit(d.st, d.r.d) ELSE d.st
      deactivate_result == IF d.r.tag = "Commit" THEN Redraw ELSE d.r
      s3 == tool_log([s2 EXCEPT !.active_tool = tool], tool, "set_active_tool")
      s4 == set_im_context(s3, tool, TRUE)
      s5 == style_event(tool_log(s4, tool, "set_sender"), tool)
      s6 == [tool_log(s5, tool, "Activated") EXCEPT !.tool_result = act]
  IN [st |-> s6, r |-> IF act = Unmodified THEN deactivate_result ELSE act]

\* tool_selected that pushes the style before it attaches the input context.
tool_selected_style_first(s, tool, style, act) ==
  LET old == s.active_tool
      d == tool_deactivated(tool_log(s, old, "Deactivated"))
      s1 == set_im_context(d.st, old, FALSE)
      s2 == IF d.r.tag = "Commit" THEN renderer_commit(s1, d.r.d) ELSE s1
      deactivate_result == IF d.r.tag = "Commit" THEN Redraw ELSE d.r
      s3 == tool_log([s2 EXCEPT !.active_tool = tool], tool, "set_active_tool")
      s4 == style_event(tool_log(s3, tool, "set_sender"), tool)
      s5 == set_im_context(s4, tool, TRUE)
      s6 == [tool_log(s5, tool, "Activated") EXCEPT !.tool_result = act]
  IN [st |-> s6, r |-> IF act = Unmodified THEN deactivate_result ELSE act]

\* tool_selected that returns the answer to Activated alone.
tool_selected_activation_only(s, tool, style, act) ==
  LET old == s.active_tool
      d == tool_deactivated(tool_log(s, old, "Deactivated"))
      s1 == set_im_context(d.st, old, FALSE)
      s2 == IF d.r.tag = "Commit" THEN renderer_commit(s1, d.r.d) ELSE s1
      s3 == tool_log([s2 EXCEPT !.active_tool = tool], tool, "set_active_tool")
      s4 == set_im_context(s3, tool, TRUE)
      s5 == style_event(tool_log(s4, tool, "set_sender"), tool)
      s6 == [tool_log(s5, tool, "Activated") EXCEPT !.tool_result = act]
  IN [st |-> s6, r |-> act]

tool_selected(s, tool, style, act) ==
  LET old == s.active_tool
      d == tool_deactivated(tool_log(s, old, "Deactivated"))
      s1 == set_im_context(d.st, old, FALSE)
      s2 == IF d.r.tag = "Commit" THEN renderer_commit(s1, d.r.d) ELSE s1
      deactivate_result == IF d.r.tag = "Commit" THEN Redraw ELSE d.r
      s3 == tool_log([s2 EXCEPT !.active_tool = tool], tool, "set_active_tool")
      s4 == set_im_context(s3, tool, TRUE)
      s5 == style_event(tool_log(s4, tool, "set_sender"), tool)
      s6 == [tool_log(s5, tool, "Activated") EXCEPT !.tool_result = act]
  IN [st |-> s6, r |-> IF act = Unmodified THEN deactivate_result ELSE act]

\* The four style events without the write to self.style: the tool gets the
\* style as it was.
set_style_forgets_field(s, m) == s

\* The assignment to the field of self.style the event names.
set_style(s, m) ==
  CASE m.sub = "ColorSelected" -> [s EXCEPT !.style.color = m.value]
    [] m.sub = "SizeSelected" -> [s EXCEPT !.style.size = m.value]
    [] m.sub = "ToggleFill" -> [s EXCEPT !.style.fill = ~s.style.fill]
    [] m.sub = "AnnotationSizeChanged" -> [s EXCEPT !.style.annotation_size_factor = m.value]

style_changed(s, style) == [st |-> style_event(s, s.active_tool), r |-> style]

handle_toolbar_event(s, m, o, style, act) ==
  CASE m.sub = "ToolSelected" -> tool_selected(s, m.tool, style, act)
    [] m.sub \in {"ColorSelected", "SizeSelected", "ToggleFill", "AnnotationSizeChanged"} ->
         style_changed(set_style(s, m), style)
    [] m.sub = "SaveFile" -> handle_action(s, <<"SaveToFile">>)
    [] m.sub = "CopyClipboard" -> handle_action(s, <<"SaveToClipboard">>)
    [] m.sub = "SaveFileAs" -> handle_action(s, <<"SaveToFileAs">>)
    [] m.sub = "Undo" -> handle_undo(s, o)
    [] m.sub = "Redo" -> handle_redo(s, o)
    [] m.sub = "Reset" -> handle_reset(s)
    [] m.sub = "Resize" -> handle_resize(s)
    [] m.sub = "OriginalScale" -> handle_original_scale(s)

\* to_digit(10) of a character: its decimal value, or -1 for a non-digit.
to_digit(char) ==
  IF \E i \in 1..Len(Digits) : Digits[i] = char
  THEN (CHOOSE i \in 1..Len(Digits) : Digits[i] = char) - 1
  ELSE -1

\* index_digit without the special case for the digit 0.
index_digit_plain(hotkey_digit) == hotkey_digit

index_digit(hotkey_digit) == IF hotkey_digit = 0 THEN 9 ELSE hotkey_digit - 1

palette_has(s, index) == s.cfg.palette_len >= index + 1

forwards_text(s) == s.active_tool = "Text" /\ input_enabled(s)

\* handle_text_commit that looks for a digit before it looks for a key binding.
handle_text_commit_digit_first(s, m) ==
  IF forwards_text(s)
  THEN sender_input(s, TextMsg("Text", m.sub, m.txt))
  ELSE IF m.sub # "Commit" \/ m.txt = <<>>
       THEN s
       ELSE IF to_digit(m.txt[1]) >= 0
            THEN IF palette_has(s, index_digit(to_digit(m.txt[1])))
                 THEN emit(s, Output("ColorSwitchShortcut", "none", index_digit(to_digit(m.txt[1]))))
                 ELSE s
            ELSE IF get_tool(s.cfg.keybinds, m.txt[1]) # "none"
                 THEN emit(sender_input(s, ToolSelected(get_tool(s.cfg.keybinds, m.txt[1]))),
                           Output("ToolSwitchShortcut", get_tool(s.cfg.keybinds, m.txt[1]), 0))
                 ELSE s

handle_text_commit(s, m) ==
  IF forwards_text(s)
  THEN sender_input(s, TextMsg("Text", m.sub, m.txt))
  ELSE IF m.sub # "Commit" \/ m.txt = <<>>
       THEN s
       ELSE IF get_tool(s.cfg.keybinds, m.txt[1]) # "none"
            THEN emit(sender_input(s, ToolSelected(get_tool(s.cfg.keybinds, m.txt[1]))),
                      Output("ToolSwitchShortcut", get_tool(s.cfg.keybinds, m.txt[1]), 0))
            ELSE IF to_digit(m.txt[1]) >= 0 /\ palette_has(s, index_digit(to_digit(m.txt[1])))
                 THEN emit(s, Output("ColorSwitchShortcut", "none", index_digit(to_digit(m.txt[1]))))
                 ELSE s

\* --------------------------------------------------------------- key events
\* evdev codes of the keycode crate's KeyMap for the ids update() names.
EvdevZ == 44
EvdevY == 21
EvdevT == 20
EvdevS == 31
EvdevC == 46
EvdevLeft == 105
EvdevRight == 106
EvdevUp == 103
EvdevDown == 108

\* self.key == key || self.code as u16 - 8 == keymap.evdev (wrapping u16).
is_one_of(ke, key, evdev) == ke.key = key \/ ((ke.code % 65536) - 8) % 65536 = evdev

is_arrow(ke) ==
  \/ is_one_of(ke, "leftarrow", EvdevLeft)
  \/ is_one_of(ke, "rightarrow", EvdevRight)
  \/ is_one_of(ke, "uparrow", EvdevUp)
  \/ is_one_of(ke, "downarrow", EvdevDown)

handle_pan(s, ke) ==
  LET s1 == IF ke.key \in {"Left", "Right", "Up", "Down"}
            THEN renderer_call(s, "set_drag_offset")
            ELSE s
  IN [st |-> request_render(renderer_call(s1, "store_last_offset"), s.cfg.actions_on_right_click),
      r |-> Unmodified]

\* handle_escape_enter that requests the render whatever the tool answered.
handle_escape_enter_always(s, ke, active_tool_result) ==
  [st |-> request_render(s, IF ke.key = "Escape"
                            THEN s.cfg.actions_on_escape
                            ELSE s.cfg.actions_on_enter),
   r |-> active_tool_result]

handle_escape_enter(s, ke, active_tool_result) ==
  [st |-> IF active_tool_result = Unmodified
          THEN request_render(s, IF ke.key = "Escape"
                                 THEN s.cfg.actions_on_escape
                                 ELSE s.cfg.actions_on_enter)
          ELSE s,
   r |-> active_tool_result]

\* key_shortcuts with the redo test ahead of the undo test.
key_shortcuts_redo_first(s, ke, active_tool_result, o) ==
  IF is_one_of(ke, "y", EvdevY) /\ ke.mod = "CONTROL" THEN handle_redo(s, o)
  ELSE IF is_one_of(ke, "z", EvdevZ) /\ ke.mod = "CONTROL" THEN handle_undo(s, o)
  ELSE IF is_one_of(ke, "t", EvdevT) /\ ke.mod = "CONTROL" THEN handle_toggle_toolbars_display(s)
  ELSE IF is_one_of(ke, "s", EvdevS) /\ ke.mod = "CONTROL"
  THEN [st |-> request_render(s, <<"SaveToFile">>), r |-> Unmodified]
  ELSE IF is_one_of(ke, "s", EvdevS) /\ ke.mod = "CONTROL|SHIFT"
  THEN [st |-> request_render(s, <<"SaveToFileAs">>), r |-> Unmodified]
  ELSE IF is_one_of(ke, "c", EvdevC) /\ ke.mod = "CONTROL"
  THEN [st |-> request_render(s, <<"SaveToClipboard">>), r |-> Unmodified]
  ELSE IF is_arrow(ke) /\ ke.mod = "ALT" THEN handle_pan(s, ke)
  ELSE IF ke.mod = "none" /\ ke.key = "Delete" THEN handle_reset(s)
  ELSE IF ke.mod = "none" /\ ke.key \in {"Escape", "Return", "KP_Enter"}
  THEN handle_escape_enter(s, ke, active_tool_result)
  ELSE [st |-> s, r |-> active_tool_result]

\* The board-level shortcuts of update(), tried in the order of the source.
key_shortcuts(s, ke, active_tool_result, o) ==
  IF is_one_of(ke, "z", EvdevZ) /\ ke.mod = "CONTROL" THEN handle_undo(s, o)
  ELSE IF is_one_of(ke, "y", EvdevY) /\ ke.mod = "CONTROL" THEN handle_redo(s, o)
  ELSE IF is_one_of(ke, "t", EvdevT) /\ ke.mod = "CONTROL" THEN handle_toggle_toolbars_display(s)
  ELSE IF is_one_of(ke, "s", EvdevS) /\ ke.mod = "CONTROL"
  THEN [st |-> request_render(s, <<"SaveToFile">>), r |-> Unmodified]
  ELSE IF is_one_of(ke, "s", EvdevS) /\ ke.mod = "CONTROL|SHIFT"
  THEN [st |-> request_render(s, <<"SaveToFileAs">>), r |-> Unmodified]
  ELSE IF is_one_of(ke, "c", EvdevC) /\ ke.mod = "CONTROL"
  THEN [st |-> request_render(s, <<"SaveToClipboard">>), r |-> Unmodified]
  ELSE IF is_arrow(ke) /\ ke.mod = "ALT" THEN handle_pan(s, ke)
  ELSE IF ke.mod = "none" /\ ke.key = "Delete" THEN handle_reset(s)
  ELSE IF ke.mod = "none" /\ ke.key \in {"Escape", "Return", "KP_Enter"}
  THEN handle_escape_enter(s, ke, active_tool_result)
  ELSE [st |-> s, r |-> active_tool_result]

\* ------------------------------------------------------------- mouse events
\* The renderer's two mappings of a canvas position: the absolute one gives
\* the image point under a canvas point, the relative one the image-space
\* length of a canvas-space displacement.
abs_canvas_to_image_coordinates(pos) == IF pos = "canvas" THEN "image point" ELSE "undefined"

rel_canvas_to_image_coordinates(pos) == IF pos = "canvas" THEN "image displacement" ELSE "undefined"

\* handle_event_mouse_input with the absolute mapping for every event type.
handle_event_mouse_input_all_absolute(s, m) ==
  IF m.kind # "Mouse" THEN [st |-> s, ie |-> m]
  ELSE IF m.sub \in {"Click", "Release", "BeginDrag", "EndDrag", "UpdateDrag"}
       THEN [st |-> renderer_call(s, "abs_canvas_to_image_coordinates"),
             ie |-> [m EXCEPT !.pos = abs_canvas_to_image_coordinates(m.pos)]]
       ELSE [st |-> s, ie |-> m]

\* The event comes back with me.pos replaced.
handle_event_mouse_input(s, m) ==
  IF m.kind # "Mouse" THEN [st |-> s, ie |-> m]
  ELSE IF m.sub \in {"Click", "Release", "BeginDrag"}
       THEN [st |-> renderer_call(s, "abs_canvas_to_image_coordinates"),
             ie |-> [m EXCEPT !.pos = abs_canvas_to_image_coordinates(m.pos)]]
       ELSE IF m.sub \in {"EndDrag", "UpdateDrag"}
            THEN [st |-> renderer_call(s, "rel_canvas_to_image_coordinates"),
                  ie |-> [m EXCEPT !.pos = rel_canvas_to_image_coordinates(m.pos)]]
            ELSE [st |-> s, ie |-> m]

\* handle_mouse_event that requests the render for a click of any button.
handle_mouse_event_any_button(s, m) ==
  IF m.kind # "Mouse" THEN s
  ELSE CASE m.sub = "Click" ->
              request_render(s, s.cfg.actions_on_right_click)
         [] m.sub \in {"EndDrag", "UpdateDrag"} ->
              IF m.button = "Middle"
              THEN LET s1 == set_is_drag(renderer_call(s, "set_drag_offset"), TRUE)
                       s2 == IF m.sub = "EndDrag"
                             THEN set_is_drag(renderer_call(s1, "store_last_offset"), FALSE)
                             ELSE s1
                   IN request_render(s2, s.cfg.actions_on_right_click)
              ELSE s
         [] m.sub = "Scroll" ->
              request_render(IF m.dy < 0 THEN renderer_call(s, "set_zoom_scale(factor)")
                             ELSE IF m.dy > 0 THEN renderer_call(s, "set_zoom_scale(1/factor)")
                             ELSE s,
                             s.cfg.actions_on_right_click)
         [] m.sub = "PointerPos" -> renderer_call(s, "set_pointer_offset")
         [] OTHER -> s

\* handle_mouse_event that leaves the dragging flag set at the end of a drag.
handle_mouse_event_keeps_dragging(s, m) ==
  IF m.kind # "Mouse" THEN s
  ELSE CASE m.sub = "Click" ->
              IF m.button = "Secondary" THEN request_render(s, s.cfg.actions_on_right_click) ELSE s
         [] m.sub \in {"EndDrag", "UpdateDrag"} ->
              IF m.button = "Middle"
              THEN LET s1 == set_is_drag(renderer_call(s, "set_drag_offset"), TRUE)
                       s2 == IF m.sub = "EndDrag"
                             THEN renderer_call(s1, "store_last_offset")
                             ELSE s1
                   IN request_render(s2, s.cfg.actions_on_right_click)
              ELSE s
         [] m.sub = "Scroll" ->
              request_render(IF m.dy < 0 THEN renderer_call(s, "set_zoom_scale(factor)")
                             ELSE IF m.dy > 0 THEN renderer_call(s, "set_zoom_scale(1/factor)")
                             ELSE s,
                             s.cfg.actions_on_right_click)
         [] m.sub = "PointerPos" -> renderer_call(s, "set_pointer_offset")
         [] OTHER -> s

handle_mouse_event(s, m) ==
  IF m.kind # "Mouse" THEN s
  ELSE CASE m.sub = "Click" ->
              IF m.button = "Secondary" THEN request_render(s, s.cfg.actions_on_right_click) ELSE s
         [] m.sub \in {"EndDrag", "UpdateDrag"} ->
              IF m.button = "Middle"
              THEN LET s1 == set_is_drag(renderer_call(s, "set_drag_offset"), TRUE)
                       s2 == IF m.sub = "EndDrag"
                             THEN set_is_drag(renderer_call(s1, "store_last_offset"), FALSE)
                             ELSE s1
                   IN request_render(s2, s.cfg.actions_on_right_click)
              ELSE s
         [] m.sub = "Scroll" ->
              request_render(IF m.dy < 0 THEN renderer_call(s, "set_zoom_scale(factor)")
                             ELSE IF m.dy > 0 THEN renderer_call(s, "set_zoom_scale(1/factor)")
                             ELSE s,
                             s.cfg.actions_on_right_click)
         [] m.sub = "PointerPos" -> renderer_call(s, "set_pointer_offset")
         [] OTHER -> s

\* ------------------------------------------------- the action dispatcher
\* thread::spawn / relm4::spawn_local: a job that outlives the handler.  A
\* job takes the lowest free slot; with none left the step is not taken.
FreeSlots(s) == (1..MaxWorkers) \ {j.id : j \in s.workers}

\* Where a job does its I/O: handle_save and handle_copy_clipboard pass theirs
\* to std::thread::spawn, handle_save_as passes its dialog, whose response
\* callback writes the file, to relm4::spawn_local, the main context.
job_thread(kind) == IF kind = "save_as" THEN "interactive" ELSE "worker"

\* file is the name a save job writes to; the other jobs have none.
spawn(s, kind, file) ==
  IF FreeSlots(s) = {}
  THEN [s EXCEPT !.overflow = TRUE]
  ELSE LET id == CHOOSE i \in FreeSlots(s) : \A k \in FreeSlots(s) : i <= k
       IN [s EXCEPT !.workers = s.workers \cup
                                  {[id |-> id, kind |-> kind, thread |-> job_thread(kind), file |-> file]},
                    !.spawned = s.spawned \cup {id}]

\* chrono::Local::now().format(fmt).to_string(): a text without specifiers
\* comes back as it is, %Y becomes the year, and an unknown specifier (%Q)
\* makes to_string panic.
chrono_format(fmt) ==
  CASE fmt = "shot-%Y.png" -> [ok |-> TRUE, text |-> "shot-2026.png"]
    [] fmt = "shot-%Q.png" -> [ok |-> FALSE, text |-> ""]
    [] OTHER -> [ok |-> TRUE, text |-> fmt]

\* handle_save that gives up when the template does not expand.
handle_save_aborts_on_bad_template(s) ==
  IF s.cfg.output_filename = "none"
  THEN [s EXCEPT !.printed = Append(s.printed, <<"println", "No Output filename specified!">>)]
  ELSE LET delayed_format == chrono_format(s.cfg.output_filename)
       IN IF delayed_format.ok
          THEN spawn(s, "save", delayed_format.text)
          ELSE [s EXCEPT !.printed = Append(s.printed, <<"println", "Warning: chrono format error">>)]

handle_save(s) ==
  IF s.cfg.output_filename = "none"
  THEN [s EXCEPT !.printed = Append(s.printed, <<"println", "No Output filename specified!">>)]
  ELSE LET delayed_format == chrono_format(s.cfg.output_filename)
       IN IF delayed_format.ok
          THEN spawn(s, "save", delayed_format.text)
          ELSE spawn([s EXCEPT !.printed = Append(s.printed, <<"println", "Warning: chrono format error">>)],
                     "save", s.cfg.output_filename)

handle_save_as(s) == spawn(s, "save_as", "none")

handle_copy_clipboard(s) ==
  IF s.cfg.copy_command
  THEN spawn(s, "copy", "none")
  ELSE [renderer_call(s, "clipboard.set_texture")
          EXCEPT !.printed = Append(s.printed, <<"log_result", "Copied to clipboard (GTK).">>)]

\* What can happen to a job: the PNG encoder, the spawn of `sh -c command`,
\* the write (to the file, to standard output or to the child's stdin) and
\* the child's exit status each succeed or fail, and the user accepts or
\* cancels the dialog.  Only what the job's kind goes through is drawn.
JobOutcomes(j) ==
  {o \in [encode : BOOLEAN, spawn : BOOLEAN, write : BOOLEAN, exit : BOOLEAN, accept : BOOLEAN] :
     /\ j.kind # "copy" => o.spawn /\ o.exit
     /\ j.kind # "save_as" => o.accept
     /\ j.kind = "save_as" => o.encode}

\* The closure of handle_copy_clipboard that stops at the write.
copy_command_result_ignores_exit(o) ==
  IF ~o.spawn THEN "Err"
  ELSE IF ~o.write THEN "Err"
  ELSE "Ok"

\* The closure of handle_copy_clipboard: spawn()?, write_all()?, wait()?.success().
copy_command_result(o) ==
  IF ~o.spawn THEN "Err"
  ELSE IF ~o.write THEN "Err"
  ELSE IF ~o.exit THEN "Err"
  ELSE "Ok"

\* What a job that ends with outcome o has told the user, and by which call.
job_reports(j, o) ==
  CASE j.kind = "save" ->
         IF ~o.encode THEN <<<<"log_result", "Error encoding PNG">>>>
         ELSE IF j.file = "-"
              THEN IF o.write THEN <<>> ELSE <<<<"eprintln", "Error writing image to stdout">>>>
              ELSE IF o.write THEN <<<<"log_result", "File saved">>>>
                   ELSE <<<<"log_result", "Error while saving file">>>>
    [] j.kind = "copy" ->
         IF ~o.encode THEN <<<<"eprintln", "Error encoding png for clipboard">>>>
         ELSE IF copy_command_result(o) = "Ok"
              THEN <<<<"log_result", "Copied to clipboard.">>>>
              ELSE <<<<"println", "Error saving">>>>
    [] j.kind = "save_as" ->
         IF ~o.accept THEN <<>>
         ELSE IF o.write THEN <<<<"log_result", "File saved">>>>
              ELSE <<<<"log_result", "Error while saving file">>>>

run_action(s, action) ==
  LET s1 == [s EXCEPT !.executed = Append(s.executed, action)]
  IN CASE action = "SaveToClipboard" -> handle_copy_clipboard(s1)
       [] action = "SaveToFile" -> handle_save(s1)
       [] action = "SaveToFileAs" -> handle_save_as(s1)
       [] OTHER -> s1

\* exits_after that ignores the early-exit flag.
exits_after_only_exit(s, action) == action = "Exit"

exits_after(s, action) == s.cfg.early_exit \/ action = "Exit"

\* handle_render_result that emits Exit and goes on with the rest of the list.
RECURSIVE handle_render_result_runs_all(_, _)
handle_render_result_runs_all(s, actions) ==
  IF actions = <<>>
  THEN s
  ELSE LET s1 == run_action(s, Head(actions))
       IN IF exits_after(s, Head(actions))
          THEN handle_render_result_runs_all(emit(s1, Output("Exit", "none", 0)), Tail(actions))
          ELSE handle_render_result_runs_all(s1, Tail(actions))

\* handle_render_result that tests the early-exit flag before the loop as well.
RECURSIVE handle_render_result_exits_when_empty(_, _)
handle_render_result_exits_when_empty(s, actions) ==
  IF actions = <<>>
  THEN IF s.cfg.early_exit THEN emit(s, Output("Exit", "none", 0)) ELSE s
  ELSE LET s1 == run_action(s, Head(actions))
       IN IF exits_after(s, Head(actions))
          THEN emit(s1, Output("Exit", "none", 0))
          ELSE handle_render_result_exits_when_empty(s1, Tail(actions))

RECURSIVE handle_render_result(_, _)
handle_render_result(s, actions) ==
  IF actions = <<>>
  THEN s
  ELSE LET s1 == run_action(s, Head(actions))
       IN IF exits_after(s, Head(actions))
          THEN emit(s1, Output("Exit", "none", 0))
          ELSE handle_render_result(s1, Tail(actions))

\* ------------------------------------------------------- the relay stream
\* main.rs: a second process sends its image to the running one over a socket.
\* A byte is a number in 0..255; i32 values are the integers themselves.

\* The big-endian bytes of v, 0 <= v < 2^31, in n >= 4 bytes.
RECURSIVE unsigned_be_bytes(_, _)
unsigned_be_bytes(v, n) ==
  IF n = 0 THEN <<>> ELSE Append(unsigned_be_bytes(v \div 256, n - 1), v % 256)

\* The little-endian bytes of an i32 instead.
i32_to_le_bytes(v) ==
  IF v >= 0
  THEN [i \in 1..4 |-> unsigned_be_bytes(v, 4)[5 - i]]
  ELSE [i \in 1..4 |-> 255 - unsigned_be_bytes(-v - 1, 4)[5 - i]]

\* i32::to_be_bytes: two's complement, most significant byte first.
i32_to_be_bytes(v) ==
  IF v >= 0
  THEN unsigned_be_bytes(v, 4)
  ELSE [i \in 1..4 |-> 255 - unsigned_be_bytes(-v - 1, 4)[i]]

\* (len as u64).to_be_bytes for a length a Vec can have here.
u64_to_be_bytes(v) == unsigned_be_bytes(v, 8)

be_value(b) == ((b[1] * 256 + b[2]) * 256 + b[3]) * 256 + b[4]

\* i32::from_be_bytes.
i32_from_be_bytes(b) ==
  IF b[1] >= 128
  THEN -1 - be_value([i \in 1..4 |-> 255 - b[i]])
  ELSE be_value(b)

\* u64::from_be_bytes as usize, by size: above isize::MAX; from 2^56 up, more
\* than a process can address; from 2^31 up, more than any stream here holds;
\* and below that, the number itself.
u64_from_be_bytes(b) ==
  IF b[1] >= 128 THEN [class |-> "over_isize_max", len |-> 0]
  ELSE IF b[1] # 0 THEN [class |-> "beyond_memory", len |-> 0]
  ELSE IF (\E i \in 2..4 : b[i] # 0) \/ b[5] >= 128 THEN [class |-> "large", len |-> 0]
  ELSE [class |-> "small", len |-> be_value(SubSeq(b, 5, 8))]

RawImageData(width, height, n_channels, rowstride, data) ==
  [width |-> width, height |-> height, n_channels |-> n_channels,
   rowstride |-> rowstride, data |-> data]

\* try_send_to_daemon, the bytes it writes when every write succeeds.
try_send_to_daemon(image) ==
  i32_to_be_bytes(image.width) \o i32_to_be_bytes(image.height)
    \o i32_to_be_bytes(image.n_channels) \o i32_to_be_bytes(image.rowstride)
    \o u64_to_be_bytes(Len(image.data)) \o image.data

NoImage == RawImageData(0, 0, 0, 0, <<>>)

ReadResult(tag, image) == [tag |-> tag, image |-> image]

\* read_raw_image_from_stream on a connection that carried `bytes` and was
\* then closed.  read_exact fails when fewer bytes are left than asked for.
\* vec![0u8; data_len] panics above isize::MAX and aborts the process when the
\* allocation fails: always for more than a process can address, and as the
\* allocator answers (`alloc`) for a large length.
read_raw_image_from_stream(bytes, alloc) ==
  IF Len(bytes) < 4 THEN ReadResult("none", NoImage)
  ELSE IF Len(bytes) < 8 THEN ReadResult("none", NoImage)
  ELSE IF Len(bytes) < 12 THEN ReadResult("none", NoImage)
  ELSE IF Len(bytes) < 16 THEN ReadResult("none", NoImage)
  ELSE IF Len(bytes) < 24 THEN ReadResult("none", NoImage)
  ELSE LET data_len == u64_from_be_bytes(SubSeq(bytes, 17, 24))
       IN IF data_len.class = "over_isize_max" THEN ReadResult("panic", NoImage)
          ELSE IF data_len.class = "beyond_memory" THEN ReadResult("abort", NoImage)
          ELSE IF data_len.class = "large"
          THEN IF alloc THEN ReadResult("none", NoImage) ELSE ReadResult("abort", NoImage)
          ELSE IF Len(bytes) - 24 < data_len.len THEN ReadResult("none", NoImage)
          ELSE ReadResult("some",
                 RawImageData(i32_from_be_bytes(SubSeq(bytes, 1, 4)),
                              i32_from_be_bytes(SubSeq(bytes, 5, 8)),
                              i32_from_be_bytes(SubSeq(bytes, 9, 12)),
                              i32_from_be_bytes(SubSeq(bytes, 13, 16)),
                              SubSeq(bytes, 25, 24 + data_len.len)))

\* ------------------------------------------------------------------ update
\* finish that redraws on a Commit result without committing the drawable.
finish_forgets_commit(s, result) ==
  CASE result.tag \in {"Commit", "Redraw", "RedrawAndStopPropagation"} -> refresh_screen(s)
    [] OTHER -> s

\* The match on `result` that ends update().
finish(s, result) ==
  CASE result.tag = "Commit" -> refresh_screen(renderer_commit(s, result.d))
    [] result.tag \in {"Redraw", "RedrawAndStopPropagation"} -> refresh_screen(s)
    [] OTHER -> s

\* handle_key that runs the shortcut chain whatever the tool answered.
handle_key_ignores_stop(s, m, o, o2) ==
  LET t == tool_input(s, m, o)
  IN key_shortcuts(t.st, m, t.r, o2)

handle_key(s, m, o, o2) ==
  LET t == tool_input(s, m, o)
  IN IF IsStop(t.r) THEN t ELSE key_shortcuts(t.st, m, t.r, o2)

handle_other_input(s, m, o) ==
  LET e == handle_event_mouse_input(s, m)
      t == tool_input(e.st, e.ie, o)
  IN IF IsStop(t.r) THEN t ELSE [st |-> handle_mouse_event(t.st, e.ie), r |-> t.r]

\* dispatch that takes a key release for a key press.
dispatch_release_as_press(s, m, o, o2, style, act) ==
  CASE m.kind = "LoadImage" -> [st |-> renderer_call(s, "init"), r |-> Redraw]
    [] m.kind \in {"Key", "KeyRelease"} -> handle_key(s, m, o, o2)
    [] m.kind \in {"Mouse", "Text"} -> handle_other_input(s, m, o)
    [] m.kind = "ToolbarEvent" -> handle_toolbar_event(s, m, o2, style, act)
    [] m.kind = "RenderResult" -> [st |-> handle_render_result(s, m.actions), r |-> Unmodified]
    [] m.kind = "CommitEvent" -> [st |-> handle_text_commit(s, m), r |-> Unmodified]
    [] m.kind = "Refresh" -> [st |-> s, r |-> Redraw]

dispatch(s, m, o, o2, style, act) ==
  CASE m.kind = "LoadImage" -> [st |-> renderer_call(s, "init"), r |-> Redraw]
    [] m.kind = "Key" -> handle_key(s, m, o, o2)
    [] m.kind \in {"Mouse", "KeyRelease", "Text"} -> handle_other_input(s, m, o)
    [] m.kind = "ToolbarEvent" -> handle_toolbar_event(s, m, o2, style, act)
    [] m.kind = "RenderResult" -> [st |-> handle_render_result(s, m.actions), r |-> Unmodified]
    [] m.kind = "CommitEvent" -> [st |-> handle_text_commit(s, m), r |-> Unmodified]
    [] m.kind = "Refresh" -> [st |-> s, r |-> Redraw]

update(s, m, o, o2, style, act) ==
  LET h == dispatch(s, m, o, o2, style, act)
  IN [st |-> finish(h.st, h.r), r |-> h.r]

\* --------------------------------------------------------------- the state
VARIABLES
  active_tool,   \* SketchBoard.active_tool, as the tool's kind
  editing,       \* per tool of the registry: does it have an in-progress edit
  im_context,    \* per tool: does it hold the input context
  is_drag,       \* the renderer's flag: a middle-button drag is under way
  drawables,     \* the history's drawables, redo tail included
  cursor,        \* the history's cursor
  next_id,       \* identity of the next drawable a tool makes
  discarded,     \* drawables a commit has removed from the redo tail
  queue,         \* the component's input channel, oldest message first
  workers,       \* I/O jobs started and not finished
  cfg,           \* APP_CONFIG
  msg,           \* the message update() handled, if the last step was an update()
  tool_result,   \* what the active tool answered to its input event or to Activated
  tool_pos,      \* the position in the input event the active tool was given
  result,        \* the `result` of the last update()
  tool_events,   \* calls the last update() made on tools, in order
  calls,         \* calls the last update() made on the renderer, in order
  requested,     \* action lists the last update() requested a render with
  outputs,       \* SketchBoardOutput values the last update() emitted
  executed,      \* actions the last update() ran
  spawned,       \* slots of the jobs the last update() started
  self_style,    \* SketchBoard.style: color, size, fill, annotation_size_factor
  style_sent,    \* the styles the last step handed to a tool with StyleChanged, in order
  requested_at,  \* for each of them, how many renderer calls the step had made before it
  printed,       \* what the last step told the user: <<call, message>>, in order
  done,          \* the job that ended in the last step and what happened to it
  pending,       \* render requests the renderer has taken and not answered
  submitted,     \* every action list a render was requested with, in order
  delivered,     \* the action list of every render result handled, in order
  stream,        \* the connection the listener thread has to read next
  parsed,        \* what read_raw_image_from_stream made of the last connection
  app_inbox,     \* AppInput::LoadImage messages sent and not handled
  app,           \* App: image_dimensions, the image on show, process and listener
  daemons,       \* the processes started with --daemon and the socket path they share
  calc           \* a function of the program applied to arguments: fn, args, out

vars ==
  <<active_tool, editing, im_context, is_drag, drawables, cursor, next_id, discarded, queue,
    workers, cfg, msg, tool_result, tool_pos, result, tool_events, calls, requested,
    outputs, executed, spawned, requested_at, printed, done, pending, submitted, delivered,
    self_style, style_sent,
    stream, parsed, app_inbox, app, daemons, calc>>

relay == <<stream, parsed, app_inbox, app, daemons, calc>>

renders == <<pending, submitted, delivered>>

board == <<active_tool, editing, im_context, is_drag, drawables, cursor, next_id, discarded, self_style>>

observed ==
  <<msg, tool_result, tool_pos, result, tool_events, calls, requested, outputs, executed,
    spawned, requested_at, printed, done, style_sent>>

NoJob == [job |-> [id |-> 0, kind |-> "none", thread |-> "none", file |-> "none"],
          outcome |-> [encode |-> TRUE, spawn |-> TRUE, write |-> TRUE, exit |-> TRUE, accept |-> TRUE]]

NoResult == [tag |-> "none", d |-> 0]

NoStream == [open |-> FALSE, bytes |-> <<>>, image |-> NoImage, complete |-> FALSE, client |-> "none"]

\* App::init in daemon mode: no image, the window sized for 500 x 500, the
\* listener thread started.
\* The window starts hidden (set_visible: false in the view).
InitApp ==
  [image_dimensions |-> <<500, 500>>, loaded |-> NoImage,
   process |-> "running", listener |-> "alive", is_daemon |-> TRUE,
   window |-> "hidden", handled |-> "none"]

\* App::init with an image: no listener thread, the window sized for the
\* image and shown.
StandaloneApp(image) ==
  [image_dimensions |-> <<image.width, image.height>>, loaded |-> image,
   process |-> "running", listener |-> "none", is_daemon |-> FALSE,
   window |-> "visible", handled |-> "none"]

\* connect_close_request that lets the window close in daemon mode too.
close_request_always_proceeds(a) == [a EXCEPT !.window = "closed"]

\* connect_close_request: a daemon hides the window and stops the signal,
\* any other instance lets the close proceed.
close_request(a) ==
  IF a.is_daemon THEN [a EXCEPT !.window = "hidden"] ELSE [a EXCEPT !.window = "closed"]

MaxDaemons == 3     \* processes started with --daemon

\* No daemon has been started and the socket path does not exist.  `path` is
\* the process whose socket the path names, 0 when the file does not exist.
NoDaemons == [pc |-> [d \in 1..MaxDaemons |-> "idle"], path |-> 0]

\* Nothing has been applied.
NoCalc == [fn |-> "none", args |-> <<>>, out |-> <<>>]

InitRelay ==
  /\ daemons = NoDaemons /\ calc = NoCalc
  /\ stream = NoStream
  /\ parsed = ReadResult("idle", NoImage)
  /\ app_inbox = <<>>
  /\ app = InitApp

NoMsg == Msg("none", "none")

\* The state update() starts from: the fields of the board, the channel as q
\* and an empty record of what this call has done.
Board(q) ==
  [active_tool |-> active_tool, editing |-> editing, im_context |-> im_context,
   is_drag |-> is_drag,
   drawables |-> drawables, cursor |-> cursor, next_id |-> next_id,
   discarded |-> discarded, queue |-> q, workers |-> workers, cfg |-> cfg,
   tool_result |-> NoResult, tool_pos |-> "none", tool_events |-> <<>>, calls |-> <<>>, requested |-> <<>>,
   outputs |-> <<>>, executed |-> <<>>, spawned |-> {}, requested_at |-> <<>>,
   style |-> self_style, style_sent |-> <<>>,
   printed |-> <<>>, overflow |-> FALSE]

\* ------------------------------------------------- what the user can send
\* Key presses and a release, pointer events, toolbar events, text from the
\* input method, and the two messages without input.
EnvMessages ==
  {KeyMsg("Key", "z", EvdevZ + 8, "CONTROL"), KeyMsg("Key", "y", EvdevY + 8, "CONTROL"),
   KeyMsg("Key", "t", EvdevT + 8, "CONTROL"),
   KeyMsg("Key", "Left", EvdevLeft + 8, "ALT"), KeyMsg("Key", "Delete", 119, "none"),
   KeyMsg("Key", "Escape", 9, "none"), KeyMsg("Key", "a", 38, "none")}
  \cup {KeyMsg("KeyRelease", "z", EvdevZ + 8, "CONTROL")}
  \cup {MouseMsg("Click", "Secondary"), MouseMsg("UpdateDrag", "Primary"),
        MouseMsg("EndDrag", "Middle"), MouseMsg("PointerPos", "Primary"), ScrollMsg(-1)}
  \cup {ToolSelected(tool) : tool \in Tools}
  \cup {Msg("ToolbarEvent", sub) : sub \in {"ColorSelected", "SaveFile", "Undo", "Redo", "Reset"}}
  \cup {TextMsg("CommitEvent", "Commit", <<"r">>), TextMsg("CommitEvent", "Preedit", <<"x">>),
        TextMsg("CommitEvent", "PreeditEnd", <<>>)}
  \cup {Msg("Refresh", "none"), Msg("LoadImage", "none")}

\* ------------------------------------------------------------ the machine
MaxActions == 2     \* length of an action list

RECURSIVE ListsUpTo(_)
ListsUpTo(n) ==
  IF n = 0 THEN {<<>>}
  ELSE ListsUpTo(n - 1) \cup {Append(l, a) : l \in {k \in ListsUpTo(n - 1) : Len(k) = n - 1}, a \in Actions}

ActionLists == ListsUpTo(MaxActions)

\* The configuration the board runs under: five palette colours, the keys r and
\* t bound to tools, and a different action list for each trigger.
BoardConfig ==
  Config(FALSE, "shot-%Y.png", TRUE, 5, KeybindsPlain, <<"SaveToClipboard", "Exit">>, <<"Exit">>, <<"SaveToFile">>)

\* SketchBoard::init: the initial tool is installed and holds the input
\* context, the history is empty, nothing is queued.
InitBoard(initial_tool) ==
  /\ active_tool = initial_tool
  /\ editing = [t \in Tools |-> FALSE]
  /\ im_context = [t \in Tools |-> t = initial_tool]
  /\ is_drag = FALSE
  /\ drawables = <<>>
  /\ cursor = 0
  /\ next_id = 1
  /\ discarded = {}
  /\ workers = {}
  /\ msg = NoMsg
  /\ tool_result = NoResult
  /\ tool_pos = "none"
  /\ result = NoResult
  /\ tool_events = <<>>
  /\ calls = <<>>
  /\ requested = <<>>
  /\ outputs = <<>>
  /\ executed = <<>>
  /\ spawned = {}
  /\ requested_at = <<>>
  /\ self_style = DefaultStyle
  /\ style_sent = <<>>
  /\ printed = <<>>
  /\ done = NoJob
  /\ pending = <<>>
  /\ submitted = <<>>
  /\ delivered = <<>>

Init ==
  /\ cfg = BoardConfig
  /\ \E initial_tool \in Tools : InitBoard(initial_tool)
  /\ queue = <<>>
  /\ InitRelay

InputKinds == {"Key", "KeyRelease", "Mouse", "Text"}

\* The answers the tools can give while m is handled.
InputChoices(m) == IF m.kind \in InputKinds THEN InputOutcomes(Board(queue)) ELSE {[r |-> Unmodified, e |-> FALSE]}

UndoChoices(m) ==
  IF (m.kind = "Key" /\ m.mod = "CONTROL" /\ (is_one_of(m, "z", EvdevZ) \/ is_one_of(m, "y", EvdevY)))
     \/ (m.kind = "ToolbarEvent" /\ m.sub \in {"Undo", "Redo"})
  THEN UndoOutcomes(Board(queue))
  ELSE {[r |-> Unmodified, e |-> TRUE]}

StyleChoices(m) ==
  IF m.kind = "ToolbarEvent" /\ m.sub \in {"ToolSelected", "ColorSelected", "SizeSelected", "ToggleFill", "AnnotationSizeChanged"}
  THEN QuietOutcomes
  ELSE {Unmodified}

ActivatedChoices(m) == IF m.kind = "ToolbarEvent" /\ m.sub = "ToolSelected" THEN QuietOutcomes ELSE {Unmodified}

\* update() has run on m and left the board in u.st.
Updated(m, u) ==
  /\ ~u.st.overflow
  /\ Len(u.st.queue) <= MaxQueue
  /\ active_tool' = u.st.active_tool
  /\ editing' = u.st.editing
  /\ im_context' = u.st.im_context
  /\ is_drag' = u.st.is_drag
  /\ drawables' = u.st.drawables
  /\ cursor' = u.st.cursor
  /\ next_id' = u.st.next_id
  /\ discarded' = u.st.discarded
  /\ queue' = u.st.queue
  /\ workers' = u.st.workers
  /\ msg' = m
  /\ tool_result' = u.st.tool_result
  /\ tool_pos' = u.st.tool_pos
  /\ result' = u.r
  /\ tool_events' = u.st.tool_events
  /\ calls' = u.st.calls
  /\ requested' = u.st.requested
  /\ outputs' = u.st.outputs
  /\ executed' = u.st.executed
  /\ spawned' = u.st.spawned
  /\ requested_at' = u.st.requested_at
  /\ self_style' = u.st.style
  /\ style_sent' = u.st.style_sent
  /\ printed' = u.st.printed
  /\ done' = NoJob
  /\ UNCHANGED cfg

\* update() on m; what the renderer does with the render requests is left out.
Handled(m, q) ==
  /\ \E o \in InputChoices(m), o2 \in UndoChoices(m), style \in StyleChoices(m), act \in ActivatedChoices(m) :
       \E u \in {update(Board(q), m, o, o2, style, act)} : Updated(m, u)
  /\ UNCHANGED <<renders, relay>>

\* `queue` holds the messages the board has sent to itself (sender.input) and
\* the renderer's answers.  A message from a GTK callback or a toolbar can have
\* been sent at any time, so it can be the next one update() gets, ahead of
\* whatever is in `queue`.
UpdateEnv == \E m \in EnvMessages : Handled(m, queue)

\* The component takes the oldest queued message and runs update().
UpdateQueued == queue # <<>> /\ Handled(Head(queue), Tail(queue))

Spec == Init /\ [][UpdateEnv \/ UpdateQueued]_vars

\* ------------------------------------------------- the dispatcher alone
\* update() on a RenderResult reads the configuration and nothing of the
\* board (handle_render_result takes &self), so the dispatcher is checked on
\* its own: any action list can come back from the renderer, under any
\* configuration of the fields it reads.
\* output_filename: not set, a plain name, a template chrono expands, one
\* it does not, and the sentinel for standard output.
InitDispatch ==
  /\ cfg \in {Config(early, file, copy, 0, KeybindsPlain, <<>>, <<>>, <<>>) :
               early \in BOOLEAN, copy \in BOOLEAN,
               file \in {"none", "shot.png", "shot-%Y.png", "shot-%Q.png", "-"}}
  /\ InitBoard("Rectangle")
  /\ queue = <<>>
  /\ InitRelay

\* The renderer's answer to a request arrives and update() handles it.
Deliver == \E actions \in ActionLists : Handled(RenderResult(actions), queue)

\* An I/O job ends.
WorkerDone ==
  /\ \E j \in workers : \E o \in JobOutcomes(j) :
       /\ workers' = workers \ {j}
       /\ done' = [job |-> j, outcome |-> o]
       /\ printed' = job_reports(j, o)
  /\ msg' = NoMsg /\ tool_result' = NoResult /\ tool_pos' = "none" /\ result' = NoResult
  /\ tool_events' = <<>> /\ calls' = <<>> /\ requested' = <<>> /\ outputs' = <<>>
  /\ executed' = <<>> /\ spawned' = {} /\ requested_at' = <<>> /\ style_sent' = <<>>
  /\ UNCHANGED <<board, queue, cfg, renders, relay>>

SpecDispatch == InitDispatch /\ [][Deliver \/ WorkerDone]_vars

\* ------------------------------------------- render requests and results
MaxRequests == 2    \* render requests in one run

\* The renderer takes the requests of one update() behind those it holds.
\* Sent last-first instead of behind the held ones.
renderer_accept_last_first(held, requests) == requests \o held

renderer_accept(held, requests) == held \o requests

RequestMessages ==
  {KeyMsg("Key", "Return", 36, "none"), KeyMsg("Key", "Escape", 9, "none"),
   Msg("ToolbarEvent", "SaveFile"), MouseMsg("Click", "Secondary")}

\* Escape asks for Exit, Enter for nothing, the save button for a file; saving
\* has no output file name and no copy command, so no job is started.
InitRender ==
  /\ cfg = Config(FALSE, "none", FALSE, 0, KeybindsPlain, <<>>, <<"Exit">>, <<"SaveToFile">>)
  /\ \E initial_tool \in Tools : InitBoard(initial_tool)
  /\ queue = <<>>
  /\ InitRelay

\* Tracked that leaves a render result unhandled when a more recent request
\* has been submitted since the one it answers.
Tracked_drops_stale(m, q) ==
  /\ \E o \in InputChoices(m), o2 \in UndoChoices(m), style \in StyleChoices(m), act \in ActivatedChoices(m) :
       \E u \in {IF m.kind = "RenderResult" /\ Len(submitted) > Len(delivered) + 1
                 THEN [st |-> Board(q), r |-> NoResult]
                 ELSE update(Board(q), m, o, o2, style, act)} :
         /\ Updated(m, u)
         /\ Len(submitted) + Len(u.st.requested) <= MaxRequests
         /\ pending' = renderer_accept(pending, u.st.requested)
         /\ submitted' = submitted \o u.st.requested
  /\ UNCHANGED relay
  /\ delivered' = IF m.kind = "RenderResult" THEN Append(delivered, m.actions) ELSE delivered

\* update() on m, with the renderer taking the requests update() made and the
\* record of the results handled.
Tracked(m, q) ==
  /\ \E o \in InputChoices(m), o2 \in UndoChoices(m), style \in StyleChoices(m), act \in ActivatedChoices(m) :
       \E u \in {update(Board(q), m, o, o2, style, act)} :
         /\ Updated(m, u)
         /\ Len(submitted) + Len(u.st.requested) <= MaxRequests
         /\ pending' = renderer_accept(pending, u.st.requested)
         /\ submitted' = submitted \o u.st.requested
  /\ UNCHANGED relay
  /\ delivered' = IF m.kind = "RenderResult" THEN Append(delivered, m.actions) ELSE delivered

\* A message that can request a render arrives from the window.
Request == \E m \in RequestMessages : Tracked(m, queue)

\* The renderer renders the oldest request it holds and sends the result to
\* the board's channel.
Render ==
  /\ pending # <<>>
  /\ Len(queue) < MaxQueue
  /\ queue' = Append(queue, RenderResult(Head(pending)))
  /\ pending' = Tail(pending)
  /\ UNCHANGED <<board, workers, cfg, observed, submitted, delivered, relay>>

\* The component takes the oldest queued message and runs update().
TakeQueued == queue # <<>> /\ Tracked(Head(queue), Tail(queue))

SpecRender == InitRender /\ [][Request \/ Render \/ TakeQueued]_vars

\* ------------------------------------------------------ images by relay
MaxSeed == 0        \* pixel patterns per image shape

Pixels(n, seed) == [i \in 1..n |-> (seed + 37 * i) % 256]

\* The pixbufs a client sends, by width, height, channels and row stride.
\* A pixbuf's pixel bytes end with its last row, padded to the stride or not.
Pixbufs ==
  UNION {{RawImageData(sh[1], sh[2], sh[3], sh[4], Pixels(n, seed)) :
            n \in {sh[4] * sh[2], sh[4] * (sh[2] - 1) + sh[1] * sh[3]}, seed \in 0..MaxSeed} :
         sh \in {<<1, 1, 4, 4>>, <<2, 2, 3, 8>>, <<258, 1, 3, 776>>}}

Header(width, height, n_channels, rowstride) ==
  i32_to_be_bytes(width) \o i32_to_be_bytes(height)
    \o i32_to_be_bytes(n_channels) \o i32_to_be_bytes(rowstride)

\* What any other process can write to the socket: frames cut short, frames
\* that declare more pixel bytes than follow, and complete frames whose
\* header no pixbuf has.
CutFrames ==
  {SubSeq(try_send_to_daemon(image), 1, k) :
     image \in {RawImageData(1, 1, 3, 4, Pixels(4, 0))}, k \in {0, 3, 4, 15, 16, 23, 24, 27}}

OverlongFrames ==
  {Header(1, 1, 3, 4) \o len \o Pixels(3, 0) :
     len \in {<<0, 0, 0, 0, 0, 0, 0, 4>>, <<0, 0, 0, 1, 0, 0, 0, 0>>,
              <<64, 0, 0, 0, 0, 0, 0, 0>>, <<128, 0, 0, 0, 0, 0, 0, 0>>,
              <<255, 255, 255, 255, 255, 255, 255, 255>>}}

MalformedFrames ==
  {try_send_to_daemon(image) :
     image \in {RawImageData(0, 1, 3, 4, Pixels(4, 0)), RawImageData(-1, 1, 3, 4, Pixels(4, 0)),
                RawImageData(1, 0, 3, 4, <<>>), RawImageData(1, 1, 7, 4, Pixels(4, 0)),
                RawImageData(1, 1, 3, 0, Pixels(4, 0)), RawImageData(1, 1, 3, -4, Pixels(4, 0)),
                RawImageData(2, 2, 3, 8, Pixels(2, 0))}}

ForeignStreams == CutFrames \cup OverlongFrames \cup MalformedFrames

\* The prefixes try_send_to_daemon can leave on the connection: it returns at
\* the first write that fails, and write_all may have written part of a field.
WritePoints(image) == {0, 6, 16, 24, 25, 24 + Len(image.data)}

\* run_satty once the image is loaded: the client returns when the image was
\* sent and runs its own App otherwise.
\* The client that starts its own window whatever try_send_to_daemon returned.
run_satty_client_always_gui(sent) == "standalone"

run_satty_client(sent) == IF sent THEN "exited" ELSE "standalone"

\* UnixStream::connect succeeds while a listener is bound to the socket.
connects(a) == a.process = "running" /\ a.listener = "alive"

\* A client has an image and try_send_to_daemon connects and writes it, up to
\* the write that fails if one does.
Send ==
  /\ connects(app)
  /\ ~stream.open
  /\ \E image \in Pixbufs : \E k \in WritePoints(image) :
       stream' = [open |-> TRUE, bytes |-> SubSeq(try_send_to_daemon(image), 1, k),
                  image |-> image, complete |-> k = 24 + Len(image.data),
                  client |-> run_satty_client(k = 24 + Len(image.data))]
  /\ UNCHANGED <<board, queue, workers, cfg, observed, renders, parsed, app_inbox, app, daemons, calc>>

\* Another process connects, writes bytes and closes.
SendForeign ==
  /\ connects(app)
  /\ ~stream.open
  /\ \E bytes \in ForeignStreams :
       stream' = [open |-> TRUE, bytes |-> bytes, image |-> NoImage, complete |-> FALSE,
                  client |-> "none"]
  /\ UNCHANGED <<board, queue, workers, cfg, observed, renders, parsed, app_inbox, app, daemons, calc>>

\* The listener thread of App::init takes the connection and reads it; an
\* image goes to the App as AppInput::LoadImage.
Accept ==
  /\ app.process = "running" /\ app.listener = "alive"
  /\ stream.open
  /\ Len(app_inbox) < MaxQueue
  /\ \E alloc \in BOOLEAN :
       LET raw_img == read_raw_image_from_stream(stream.bytes, alloc)
       IN /\ parsed' = raw_img
          /\ app_inbox' = IF raw_img.tag = "some" THEN Append(app_inbox, raw_img.image)
                          ELSE app_inbox
          /\ app' = [app EXCEPT !.process = IF raw_img.tag = "abort" THEN "aborted" ELSE @,
                                !.listener = IF raw_img.tag = "panic" THEN "panicked" ELSE @]
  /\ stream' = [stream EXCEPT !.open = FALSE]
  /\ UNCHANGED <<board, queue, workers, cfg, observed, renders, daemons, calc>>

\* What gdk_pixbuf_new_from_bytes requires of its arguments; has_alpha is
\* n_channels == 4.
pixbuf_ok(raw_img) ==
  /\ raw_img.width > 0
  /\ raw_img.height > 0
  /\ Len(raw_img.data) >=
       raw_img.width * raw_img.height * (IF raw_img.n_channels = 4 THEN 4 ELSE 3)

\* App::update on AppInput::LoadImage: the dimensions are stored, the pixbuf
\* is built and sent to the sketch board.  Building it from arguments the
\* library refuses yields a null pointer, which the binding asserts against
\* in some builds and uses in others.
AppLoad ==
  /\ app.process = "running"
  /\ app_inbox # <<>>
  /\ Len(queue) < MaxQueue
  /\ LET raw_img == Head(app_inbox)
     IN \E asserts \in BOOLEAN :
          IF pixbuf_ok(raw_img) \/ ~asserts
          THEN /\ app' = [app EXCEPT !.image_dimensions = <<raw_img.width, raw_img.height>>,
                                     !.loaded = raw_img, !.window = "visible",
                                     !.handled = "LoadImage"]
               /\ queue' = Append(queue, Msg("LoadImage", "none"))
          ELSE /\ app' = [app EXCEPT !.image_dimensions = <<raw_img.width, raw_img.height>>,
                                     !.process = "crashed", !.handled = "LoadImage"]
               /\ queue' = queue
  /\ app_inbox' = Tail(app_inbox)
  /\ UNCHANGED <<board, workers, cfg, observed, renders, stream, parsed, daemons, calc>>

\* The sketch board handles the LoadImage it was sent.
BoardLoad == app.process = "running" /\ UpdateQueued

InitDaemon ==
  /\ cfg = BoardConfig
  /\ InitBoard("Rectangle")
  /\ queue = <<>>
  /\ InitRelay

SpecRelay == InitDaemon /\ [][Send \/ SendForeign \/ Accept \/ AppLoad \/ BoardLoad]_vars

\* ---------------------------------------------------- composed text arrives
MaxPalette == 10    \* palette entries

\* handle_text_commit reads the configuration, the active tool and whether
\* that tool accepts input: each is drawn here, the rest is as init leaves it.
InitText ==
  /\ cfg \in {Config(FALSE, "shot-%Y.png", TRUE, palette, keybinds, <<>>, <<>>, <<>>) :
               palette \in 0..MaxPalette, keybinds \in {KeybindsPlain, KeybindsDigit}}
  /\ \E tool \in Tools, accepting \in BOOLEAN :
       /\ active_tool = tool
       /\ editing = [t \in Tools |-> t = tool /\ accepting]
       /\ im_context = [t \in Tools |-> t = tool] /\ is_drag = FALSE
  /\ drawables = <<>> /\ cursor = 0 /\ next_id = 1 /\ discarded = {}
  /\ queue = <<>> /\ workers = {}
  /\ msg = NoMsg /\ tool_result = NoResult /\ tool_pos = "none" /\ result = NoResult
  /\ tool_events = <<>> /\ calls = <<>> /\ requested = <<>>
  /\ outputs = <<>> /\ executed = <<>> /\ spawned = {} /\ requested_at = <<>> /\ printed = <<>> /\ done = NoJob
  /\ self_style = DefaultStyle /\ style_sent = <<>>
  /\ pending = <<>> /\ submitted = <<>> /\ delivered = <<>>
  /\ InitRelay

\* The input method commits a string, shows one being composed, or ends the
\* composition.  The strings: the empty one, every single character, and a
\* digit and a letter followed by another character.
CommitText ==
  \E txt \in {<<>>} \cup {<<c>> : c \in Chars} \cup {<<"0", "x">>, <<"x", "0">>},
     sub \in {"Commit", "Preedit", "PreeditEnd"} :
    /\ sub = "PreeditEnd" => txt = <<>>
    /\ Handled(TextMsg("CommitEvent", sub, txt), queue)

SpecText == InitText /\ [][CommitText]_vars

\* ================================================================== claims
VisibleNow == SubSeq(drawables, 1, cursor)

UndoRequest(m) ==
  \/ m.kind = "ToolbarEvent" /\ m.sub = "Undo"
  \/ m.kind = "Key" /\ m.mod = "CONTROL" /\ is_one_of(m, "z", EvdevZ)

RedoRequest(m) ==
  \/ m.kind = "ToolbarEvent" /\ m.sub = "Redo"
  \/ m.kind = "Key" /\ m.mod = "CONTROL" /\ ~is_one_of(m, "z", EvdevZ) /\ is_one_of(m, "y", EvdevY)

Answered(event) == \E i \in 1..Len(tool_events) : tool_events[i][2] = event

Count(log, x) == Cardinality({i \in 1..Len(log) : log[i] = x})

CountEvent(log, event) == Cardinality({i \in 1..Len(log) : log[i][2] = event})

C1_Step ==
  /\ (UndoRequest(msg') /\ Answered("active:false")') =>
       IF cursor > 0
       THEN VisibleNow' = Front(VisibleNow) /\ drawables' = drawables /\ result' = Redraw
       ELSE cursor' = cursor /\ drawables' = drawables /\ result' = Unmodified
  /\ (RedoRequest(msg') /\ Answered("active:false")') =>
       IF cursor < Len(drawables)
       THEN VisibleNow' = Append(VisibleNow, drawables[cursor + 1]) /\ drawables' = drawables
            /\ result' = Redraw
       ELSE cursor' = cursor /\ drawables' = drawables /\ result' = Unmodified

\* C1: with the active tool answering inactive, an undo request takes exactly
\* the last drawable off the visible list and keeps it as the redo tail, so
\* after n commits and k undos the visible list is d1..d(n-k); a redo request
\* makes the first drawable of the redo tail, d(n-k+1), visible again; an undo
\* with nothing visible and a redo with no redo tail change nothing and
\* report Unmodified.
C1_UndoRedoHistory == [][C1_Step]_vars

\* Two commits were followed by two undos, handled by the history.
C1_Witness ==
  /\ UndoRequest(msg) /\ Answered("active:false") /\ result = Redraw
  /\ Len(drawables) = 2 /\ cursor = 0

C2_Step ==
  result'.tag = "Commit" =>
    VisibleNow' = Append(VisibleNow, result'.d) /\ drawables' = VisibleNow'

\* C2: a commit puts the new drawable after the visible prefix and drops the
\* redo tail for good: no drawable that was in the redo tail at a commit is in
\* the history afterwards, so no redo brings it back.
C2_CommitDiscardsRedoTail == [](Range(drawables) \cap discarded = {}) /\ [][C2_Step]_vars

\* Drawable 1 was undone, drawable 2 committed, and a redo was then asked for.
C2_Witness ==
  /\ RedoRequest(msg) /\ Answered("active:false") /\ result = Unmodified
  /\ discarded = {1} /\ drawables = <<2>> /\ cursor = 1

C3_Step ==
  (msg'.kind = "ToolbarEvent" /\ msg'.sub = "ToolSelected") =>
    /\ CountEvent(tool_events', "Deactivated") = 1
    /\ CountEvent(tool_events', "Activated") = 1
    /\ \E i, j \in 1..Len(tool_events') :
         /\ i < j
         /\ tool_events'[i] = <<active_tool, "Deactivated">>
         /\ tool_events'[j] = <<msg'.tool, "Activated">>
    /\ IF editing[active_tool]
       THEN VisibleNow' = Append(VisibleNow, next_id) /\ Count(calls', "commit") = 1
       ELSE drawables' = drawables /\ cursor' = cursor /\ Count(calls', "commit") = 0

\* C3: a tool switch, also one to the tool already active, sends Deactivated to
\* the old tool once and then Activated to the new tool once; an in-progress
\* edit of the old tool adds exactly one drawable to the history, and without
\* one the history is unchanged.
C3_ToolSwitch == [][C3_Step]_vars

\* A switch to the tool already active committed that tool's in-progress edit.
C3_Witness ==
  /\ msg.kind = "ToolbarEvent" /\ msg.sub = "ToolSelected"
  /\ tool_events[1] = <<msg.tool, "Deactivated">>
  /\ Count(calls, "commit") = 1 /\ cursor > 0 /\ drawables[cursor] = next_id - 1

\* C4: when the active tool answers an input event with StopPropagation or
\* RedrawAndStopPropagation, update() returns that answer and does nothing at
\* board level: no history call, no pan, zoom or hover call, no render request,
\* no output, and no further call on the tool.
C4_StopPropagation ==
  (msg.kind \in InputKinds /\ IsStop(tool_result)) =>
    /\ result = tool_result
    /\ requested = <<>>
    /\ outputs = <<>>
    /\ Len(tool_events) = 1
    /\ Range(calls) \subseteq {"abs_canvas_to_image_coordinates", "rel_canvas_to_image_coordinates", "queue_render"}

\* Ctrl+Z was consumed by the tool while the history had something to undo.
C4_Witness == msg.kind = "Key" /\ UndoRequest(msg) /\ IsStop(tool_result) /\ cursor > 0

C5_Step ==
  (UndoRequest(msg') \/ RedoRequest(msg')) =>
    /\ Answered("active:true")' =>
         /\ drawables' = drawables /\ cursor' = cursor
         /\ IF UndoRequest(msg') THEN Answered("handle_undo")' ELSE Answered("handle_redo")'
    /\ (drawables' # drawables \/ cursor' # cursor) => Answered("active:false")'

\* C5: an undo or redo request moves the history only when the active tool
\* answers inactive; when it answers active the request goes to the tool's
\* handle_undo / handle_redo and the history is left as it was.
C5_ToolAbsorbsUndo == [][C5_Step]_vars

\* An undo went to the active tool although the history had something to undo.
C5_Witness == UndoRequest(msg) /\ Answered("active:true") /\ Answered("handle_undo") /\ cursor > 0

C6_Step == msg'.kind = "Text" => active_tool = "Text" /\ editing["Text"]

\* C6: whatever is handled between a composition event and the Text input event
\* it caused, the Text input event reaches the active tool only when that tool
\* is the text tool and is accepting input at that moment.
C6_TextOnlyToAcceptingTextTool == [][C6_Step]_vars

DigitIndex ==
  [c \in Range(Digits) |->
     CASE c = "0" -> 9 [] c = "1" -> 0 [] c = "2" -> 1 [] c = "3" -> 2 [] c = "4" -> 3
       [] c = "5" -> 4 [] c = "6" -> 5 [] c = "7" -> 6 [] c = "8" -> 7 [] c = "9" -> 8]

UnforwardedDigit ==
  /\ msg.kind = "CommitEvent" /\ msg.sub = "Commit" /\ msg.txt # <<>>
  /\ ~(active_tool = "Text" /\ editing["Text"])
  /\ msg.txt[1] \in Range(Digits)
  /\ cfg.keybinds[msg.txt[1]] = "none"

\* C7: a committed string that is not forwarded to the text tool and starts with
\* a digit no tool is bound to maps '0' to index 9 and every other digit d to
\* d - 1, and the board emits ColorSwitchShortcut(index), and no other output,
\* exactly when the palette has at least index + 1 entries.
C7_DigitShortcut ==
  UnforwardedDigit =>
    outputs = IF cfg.palette_len >= DigitIndex[msg.txt[1]] + 1
              THEN <<Output("ColorSwitchShortcut", "none", DigitIndex[msg.txt[1]])>>
              ELSE <<>>

\* '0' selected the tenth colour of a palette of ten.
C7_Witness ==
  /\ UnforwardedDigit /\ msg.txt[1] = "0" /\ cfg.palette_len = 10
  /\ outputs = <<Output("ColorSwitchShortcut", "none", 9)>>

ExitOutput == Output("Exit", "none", 0)

\* C8: the actions a render result has executed are a prefix of its list, in
\* list order; nothing is executed after an Exit action, which emits the Exit
\* output; without Exit and without the early-exit flag the whole list runs.
C8_ActionsInOrder ==
  msg.kind = "RenderResult" =>
    /\ Len(executed) <= Len(msg.actions)
    /\ executed = SubSeq(msg.actions, 1, Len(executed))
    /\ \A i \in 1..(Len(executed) - 1) : executed[i] # "Exit"
    /\ "Exit" \in Range(executed) => outputs = <<ExitOutput>>
    /\ (~cfg.early_exit /\ "Exit" \in Range(msg.actions)) => "Exit" \in Range(executed)
    /\ (~cfg.early_exit /\ "Exit" \notin Range(msg.actions)) =>
         executed = msg.actions /\ outputs = <<>>

\* SaveToFile stood after Exit in the list and was not executed.
C8_Witness ==
  /\ msg.kind = "RenderResult" /\ ~cfg.early_exit
  /\ msg.actions = <<"Exit", "SaveToFile">> /\ executed = <<"Exit">> /\ outputs = <<ExitOutput>>

\* C9: with the early-exit flag set, a render result with a non-empty list
\* executes the first action of the list, emits Exit, and executes no other.
C9_EarlyExit ==
  (msg.kind = "RenderResult" /\ cfg.early_exit /\ msg.actions # <<>>) =>
    executed = <<msg.actions[1]>> /\ outputs = <<ExitOutput>>

\* Under early exit a list of two save actions ran only the first one.
C9_Witness ==
  /\ msg.kind = "RenderResult" /\ cfg.early_exit
  /\ msg.actions = <<"SaveToFile", "SaveToClipboard">>
  /\ executed = <<"SaveToFile">> /\ outputs = <<ExitOutput>>

\* C10: when a render result has emitted Exit, no file write or copy subprocess
\* started by an earlier action of the same list is still running.
C10_ExitAfterJobsFinish ==
  (msg.kind = "RenderResult" /\ ExitOutput \in Range(outputs)) =>
    \A j \in workers : j.id \notin spawned

IsPrefix(a, b) == Len(a) <= Len(b) /\ a = SubSeq(b, 1, Len(a))

JustRead == ~stream.open /\ parsed.tag # "idle"

\* C12: an image that try_send_to_daemon has written completely is parsed by
\* read_raw_image_from_stream into the same width, height, channel count, row
\* stride and pixel bytes.
C12_RelayRoundTrip ==
  (JustRead /\ stream.complete) =>
    /\ parsed.tag = "some"
    /\ parsed.image.width = stream.image.width
    /\ parsed.image.height = stream.image.height
    /\ parsed.image.n_channels = stream.image.n_channels
    /\ parsed.image.rowstride = stream.image.rowstride
    /\ parsed.image.data = stream.image.data

\* A 258 pixel wide image, whose width and length need two bytes, came through.
C12_Witness ==
  /\ JustRead /\ stream.complete /\ stream.image.width = 258
  /\ parsed.tag = "some" /\ Len(parsed.image.data) = 774

\* The pixel bytes a stream declares, from its 8-byte length field, when the
\* field is there and the number is one a buffer here can have.
DeclaresMore(bytes) ==
  \/ \E i \in 17..21 : bytes[i] # 0
  \/ be_value(SubSeq(bytes, 21, 24)) > Len(bytes) - 24

Truncated(bytes) == Len(bytes) < 24 \/ DeclaresMore(bytes)

C13_Step ==
  (stream.open /\ ~stream'.open /\ Truncated(stream.bytes)) =>
    /\ parsed'.tag = "none"
    /\ app_inbox' = app_inbox
    /\ app' = app
    /\ UNCHANGED board

\* C13: a stream that ends before the whole header or before the declared
\* number of pixel bytes is dropped: the read returns no image, no LoadImage
\* is sent to the App, and the App, the image on show and the board stay as
\* they were.
C13_TruncatedDropped == [][C13_Step]_vars

MalformedHeader(bytes) ==
  LET width == i32_from_be_bytes(SubSeq(bytes, 1, 4))
      height == i32_from_be_bytes(SubSeq(bytes, 5, 8))
      n_channels == i32_from_be_bytes(SubSeq(bytes, 9, 12))
      rowstride == i32_from_be_bytes(SubSeq(bytes, 13, 16))
      data_len == be_value(SubSeq(bytes, 21, 24))
  IN \/ width <= 0 \/ height <= 0 \/ rowstride <= 0
     \/ n_channels \notin {3, 4}
     \/ data_len \notin {rowstride * height, rowstride * (height - 1) + width * n_channels}

C14_Step ==
  (stream.open /\ ~stream'.open /\ ~Truncated(stream.bytes) /\ MalformedHeader(stream.bytes)) =>
    /\ parsed'.tag = "none"
    /\ app_inbox' = app_inbox
    /\ app' = app
    /\ UNCHANGED board

\* C14: a complete stream with a malformed header (width, height or row stride
\* not positive, a channel count other than 3 or 4, a pixel length that does
\* not fit row stride and height) is rejected: no LoadImage is sent to the App
\* and the App, the image on show and the board stay as they were.
C14_MalformedRejected == [][C14_Step]_vars

\* C15: every file write and copy subprocess started by SaveToFile,
\* SaveToFileAs or SaveToClipboard runs on a worker thread, never on the
\* interactive thread.
C15_IoOnWorkerThreads == \A j \in workers : j.thread = "worker"

\* ------------------------------------------------------ switching tools
\* The toolbar selects a tool, a committed character selects one through its
\* key binding, and between the switches the board gets input of every kind.
ToolMessages ==
  {KeyMsg("Key", "a", 38, "none"), MouseMsg("Click", "Primary"),
   TextMsg("CommitEvent", "Commit", <<"t">>), TextMsg("CommitEvent", "Commit", <<"r">>),
   Msg("ToolbarEvent", "ColorSelected"), Msg("ToolbarEvent", "Reset"), Msg("Refresh", "none"),
   KeyMsg("Key", "Delete", 119, "none")}

SwitchTool == \E tool \in Tools : Handled(ToolSelected(tool), queue)

OtherInput == \E m \in ToolMessages : Handled(m, queue)

SpecTools == Init /\ [][SwitchTool \/ OtherInput \/ UpdateQueued]_vars

HoldsContext == {t \in Tools : im_context[t]}

IsToolSelected(m) == m.kind = "ToolbarEvent" /\ m.sub = "ToolSelected"

ContextEvents(log) == SelectSeq(log, LAMBDA e : e[2] \in {"set_im_context(None)", "set_im_context(Some)"})

C16_Step ==
  /\ HoldsContext = {active_tool}
  /\ HoldsContext' = {active_tool'}
  /\ IF IsToolSelected(msg')
     THEN /\ active_tool' = msg'.tool
          /\ ContextEvents(tool_events') =
               <<<<active_tool, "set_im_context(None)">>, <<msg'.tool, "set_im_context(Some)">>>>
     ELSE /\ UNCHANGED <<active_tool, im_context>>
          /\ ContextEvents(tool_events') = <<>>

\* C16: in every state exactly one tool holds the input context and it is the
\* active tool; a tool switch takes the context from the old tool and gives it
\* to the new one, and no other message touches the context or the active tool.
C16_OneInputContext == [][C16_Step]_vars

\* A switch moved the input context from one tool to another.
C16_Witness ==
  /\ IsToolSelected(msg)
  /\ tool_events[2][1] # msg.tool
  /\ HoldsContext = {msg.tool}

\* ------------------------------------------------------ pointer events
\* Every type of mouse event the canvas controllers send, with each button.
PointerEvents ==
  {MouseMsg(type, button) :
     type \in {"Click", "Release", "BeginDrag", "UpdateDrag", "EndDrag", "PointerPos"},
     button \in {"Primary", "Middle", "Secondary"}}
  \cup {ScrollMsg(dy) : dy \in {-1, 0, 1}}

PointerInput == \E m \in PointerEvents : Handled(m, queue)

SpecMouse == Init /\ [][PointerInput]_vars

\* C17: the active tool gets the position of a Click, Release or BeginDrag
\* after the absolute canvas-to-image mapping and that of an UpdateDrag or
\* EndDrag after the relative one, never the canvas position itself; the
\* mapping is applied once.
C17_PositionTransformed ==
  (msg.kind = "Mouse" /\ msg.pos = "canvas") =>
    /\ msg.sub \in {"Click", "Release", "BeginDrag"} =>
         /\ tool_pos = "image point"
         /\ Count(calls, "abs_canvas_to_image_coordinates") = 1
         /\ Count(calls, "rel_canvas_to_image_coordinates") = 0
    /\ msg.sub \in {"UpdateDrag", "EndDrag"} =>
         /\ tool_pos = "image displacement"
         /\ Count(calls, "rel_canvas_to_image_coordinates") = 1
         /\ Count(calls, "abs_canvas_to_image_coordinates") = 0

\* The tool was given the end of a drag as an image displacement.
C17_Witness ==
  /\ msg.kind = "Mouse" /\ msg.sub = "EndDrag" /\ msg.pos = "canvas"
  /\ tool_events # <<>> /\ tool_pos = "image displacement"

\* ---------------------------------------------------------- key presses
\* Key presses as GTK reports them: the key symbol of the layout in use, the
\* hardware code (evdev code + 8) of the physical key, and the modifiers.  On
\* a layout that moves letters the symbol and the code name different keys.
KeyPresses ==
  {KeyMsg("Key", "z", EvdevZ + 8, "CONTROL"), KeyMsg("Key", "y", EvdevY + 8, "CONTROL"),
   KeyMsg("Key", "y", EvdevZ + 8, "CONTROL"), KeyMsg("Key", "z", EvdevY + 8, "CONTROL"),
   KeyMsg("Key", "t", EvdevS + 8, "CONTROL"), KeyMsg("Key", "s", EvdevC + 8, "CONTROL"),
   KeyMsg("Key", "s", EvdevS + 8, "CONTROL|SHIFT"), KeyMsg("Key", "c", EvdevC + 8, "CONTROL"),
   KeyMsg("Key", "Left", EvdevLeft + 8, "ALT"), KeyMsg("Key", "a", EvdevUp + 8, "ALT"),
   KeyMsg("Key", "Left", 38, "ALT"), KeyMsg("Key", "Delete", 119, "none"),
   KeyMsg("Key", "Delete", 119, "CONTROL"), KeyMsg("Key", "Escape", 9, "none"),
   KeyMsg("Key", "Return", 36, "none"), KeyMsg("Key", "KP_Enter", 104, "none"),
   KeyMsg("Key", "Escape", 9, "SHIFT"), KeyMsg("Key", "a", 38, "none")}

KeyInput == \E m \in KeyPresses : Handled(m, queue)

SpecKeys == Init /\ [][KeyInput]_vars

IsEscapeEnter(m) == m.kind = "Key" /\ m.mod = "none" /\ m.key \in {"Escape", "Return", "KP_Enter"}

\* C18: an Escape, Return or KP_Enter press without modifiers requests one
\* render, with the escape list for Escape and the enter list otherwise, when
\* the active tool answered Unmodified, and requests none when it answered
\* anything else (Redraw, Commit or a stop).
C18_EscapeEnterOnlyIfUnmodified ==
  IsEscapeEnter(msg) =>
    requested = IF tool_result = Unmodified
                THEN <<IF msg.key = "Escape" THEN cfg.actions_on_escape ELSE cfg.actions_on_enter>>
                ELSE <<>>

\* Return was answered Unmodified and the enter list was requested.
C18_Witness ==
  /\ IsEscapeEnter(msg) /\ msg.key = "Return" /\ tool_result = Unmodified
  /\ requested = <<cfg.actions_on_enter>>

\* Escape was answered with a commit and nothing was requested.
C18_WitnessCommit ==
  /\ IsEscapeEnter(msg) /\ msg.key = "Escape" /\ tool_result.tag = "Commit"
  /\ requested = <<>>

\* The tests of the shortcut chain, as the claim orders them.
ShortcutTests(ke) ==
  <<<<"undo", is_one_of(ke, "z", EvdevZ) /\ ke.mod = "CONTROL">>,
    <<"redo", is_one_of(ke, "y", EvdevY) /\ ke.mod = "CONTROL">>,
    <<"toggle-toolbars", is_one_of(ke, "t", EvdevT) /\ ke.mod = "CONTROL">>,
    <<"save", is_one_of(ke, "s", EvdevS) /\ ke.mod = "CONTROL">>,
    <<"save-as", is_one_of(ke, "s", EvdevS) /\ ke.mod = "CONTROL|SHIFT">>,
    <<"copy", is_one_of(ke, "c", EvdevC) /\ ke.mod = "CONTROL">>,
    <<"pan", is_arrow(ke) /\ ke.mod = "ALT">>,
    <<"delete", ke.mod = "none" /\ ke.key = "Delete">>,
    <<"escape/enter", IsEscapeEnter(ke)>>>>

Matching(ke) == {i \in 1..Len(ShortcutTests(ke)) : ShortcutTests(ke)[i][2]}

Earliest(ke) ==
  LET tests == ShortcutTests(ke)
      matching == {i \in 1..Len(tests) : tests[i][2]}
  IN IF matching = {} THEN "none"
     ELSE tests[CHOOSE i \in matching : \A k \in matching : i <= k][1]

ToggleOutput == Output("ToggleToolbarsDisplay", "none", 0)

\* The shortcuts whose handler has left its mark on the last update().
Ran ==
  {n \in {"undo"} : Answered("handle_undo") \/ Count(calls, "undo") > 0}
  \cup {n \in {"redo"} : Answered("handle_redo") \/ Count(calls, "redo") > 0}
  \cup {n \in {"toggle-toolbars"} : Count(outputs, ToggleOutput) > 0}
  \cup {n \in {"save"} : Count(requested, <<"SaveToFile">>) > 0 /\ Count(calls, "store_last_offset") = 0}
  \cup {n \in {"save-as"} : Count(requested, <<"SaveToFileAs">>) > 0}
  \cup {n \in {"copy"} : Count(requested, <<"SaveToClipboard">>) > 0}
  \cup {n \in {"pan"} : Count(calls, "store_last_offset") > 0}
  \cup {n \in {"delete"} : Count(calls, "reset") > 0}
  \cup {n \in {"escape/enter"} :
          Count(requested, cfg.actions_on_escape) + Count(requested, cfg.actions_on_enter) > 0}

\* What update() does with the tool's own answer once the shortcuts are through.
ToolAnswerOnly ==
  /\ result' = tool_result'
  /\ requested' = <<>> /\ outputs' = <<>> /\ Len(tool_events') = 1
  /\ UNCHANGED <<active_tool, im_context, queue, workers>>
  /\ CASE tool_result'.tag = "Commit" ->
            /\ calls' = <<"commit", "queue_render">>
            /\ VisibleNow' = Append(VisibleNow, tool_result'.d)
       [] tool_result'.tag = "Redraw" ->
            calls' = <<"queue_render">> /\ UNCHANGED <<drawables, cursor>>
       [] OTHER -> calls' = <<>> /\ UNCHANGED <<drawables, cursor>>

C19_Step ==
  (msg'.kind = "Key" /\ ~IsStop(tool_result')) =>
    LET earliest == Earliest(msg')
        ran == Ran'
    IN /\ Len(requested') <= 1
       /\ ran \subseteq {earliest}
       /\ (earliest \notin {"none", "escape/enter"}) => ran = {earliest}
       /\ earliest = "none" => ToolAnswerOnly

\* C19: for a key press the tool did not stop, only the earliest matching
\* shortcut of undo, redo, toggle-toolbars, save, save-as, copy, pan, delete,
\* escape/enter runs, also when the key symbol and the key code match
\* different shortcuts; a press matching none passes the tool's answer on: no
\* history, pan or reset call, no output, no render request, and the history
\* changes only by a drawable the tool itself committed.
C19_EarliestShortcutOnly == [][C19_Step]_vars

\* The symbol y on the physical key of z, with Control: undo ran, redo did not.
C19_Witness ==
  /\ msg = KeyMsg("Key", "y", EvdevZ + 8, "CONTROL")
  /\ Cardinality(Matching(msg)) = 2
  /\ Ran = {"undo"} /\ Count(calls, "undo") = 1

\* The calls of the last update() on tools, without set_sender.
SwitchSteps(log) == SelectSeq(log, LAMBDA e : e[2] # "set_sender")

CommitsPending == Count(calls', "commit") = IF editing[active_tool] THEN 1 ELSE 0

C20_Step ==
  IsToolSelected(msg') =>
    /\ SwitchSteps(tool_events') =
         <<<<active_tool, "Deactivated">>, <<active_tool, "set_im_context(None)">>,
           <<msg'.tool, "set_active_tool">>, <<msg'.tool, "set_im_context(Some)">>,
           <<msg'.tool, "StyleChanged">>, <<msg'.tool, "Activated">>>>
    /\ CommitsPending

\* C20: a tool switch deactivates the current tool, committing its pending
\* drawable, clears that tool's input context, installs the new active tool,
\* attaches the input context to it, pushes the style into it with
\* StyleChanged and sends it Activated, in this order.
C20_SwitchOrder == [][C20_Step]_vars

\* A switch away from a tool with a pending drawable went through all steps.
C20_Witness ==
  /\ IsToolSelected(msg)
  /\ Count(calls, "commit") = 1
  /\ Len(SwitchSteps(tool_events)) = 6
  /\ tool_events[1][1] # msg.tool

C20_StepAsStated ==
  IsToolSelected(msg') =>
    /\ SwitchSteps(tool_events') =
         <<<<active_tool, "Deactivated">>, <<active_tool, "set_im_context(None)">>,
           <<msg'.tool, "set_active_tool">>, <<msg'.tool, "StyleChanged">>,
           <<msg'.tool, "set_im_context(Some)">>, <<msg'.tool, "Activated">>>>
    /\ CommitsPending

\* C20 as the specification words it: the style is pushed into the new tool
\* before the input context is attached to it.
C20_StyleBeforeContext == [][C20_StepAsStated]_vars

C21_Step ==
  IsToolSelected(msg') =>
    /\ Count(calls', "queue_render") = IF editing[active_tool] \/ tool_result' = Redraw THEN 1 ELSE 0
    /\ (editing[active_tool] \/ tool_result' = Redraw) => result' = Redraw

Unconsumed(m, kind) == m.kind = kind /\ ~IsStop(tool_result)

\* C22: a Click the tool does not stop requests one render with the
\* on-right-click list when the button is the secondary one, and none when it
\* is the primary or the middle one.
C22_SecondaryClick ==
  (Unconsumed(msg, "Mouse") /\ msg.sub = "Click") =>
    requested = IF msg.button = "Secondary" THEN <<cfg.actions_on_right_click>> ELSE <<>>

\* A secondary click went through and the on-right-click list was requested.
C22_Witness ==
  /\ Unconsumed(msg, "Mouse") /\ msg.sub = "Click" /\ msg.button = "Secondary"
  /\ requested = <<cfg.actions_on_right_click>> /\ cfg.actions_on_right_click # <<>>

IsPlainRedrawTrigger(m) ==
  \/ m.kind = "Mouse" /\ m.sub = "Scroll"
  \/ m.kind = "Mouse" /\ m.sub \in {"UpdateDrag", "EndDrag"} /\ m.button = "Middle"
  \/ m.kind = "Key" /\ m.mod = "ALT" /\ is_arrow(m)
  \/ m.kind = "ToolbarEvent" /\ m.sub \in {"Resize", "OriginalScale"}

\* C23: a scroll, a middle-button drag, an Alt+arrow pan and the toolbar's
\* Resize and OriginalScale request renders with the empty action list only.
C23_PlainRedrawTriggers ==
  IsPlainRedrawTrigger(msg) => \A i \in 1..Len(requested) : requested[i] = <<>>

\* C24: a scroll the tool does not stop zooms by the factor for a negative
\* delta and by 1/factor for a positive one; with delta zero the zoom is not
\* touched and nothing is requested.
C24_ScrollZoom ==
  (Unconsumed(msg, "Mouse") /\ msg.sub = "Scroll") =>
    /\ msg.dy < 0 => Count(calls, "set_zoom_scale(factor)") = 1 /\ Count(calls, "set_zoom_scale(1/factor)") = 0
    /\ msg.dy > 0 => Count(calls, "set_zoom_scale(1/factor)") = 1 /\ Count(calls, "set_zoom_scale(factor)") = 0
    /\ msg.dy = 0 =>
         /\ Count(calls, "set_zoom_scale(factor)") + Count(calls, "set_zoom_scale(1/factor)") = 0
         /\ requested = <<>>

IsDrag(m) == m.kind = "Mouse" /\ m.sub \in {"UpdateDrag", "EndDrag"}

PanCalls(log) == SelectSeq(log, LAMBDA c : c \in {"set_drag_offset", "store_last_offset"})

C25_Step ==
  /\ (IsDrag(msg') /\ msg'.button = "Middle" /\ ~IsStop(tool_result')) =>
       IF msg'.sub = "UpdateDrag"
       THEN PanCalls(calls') = <<"set_drag_offset">> /\ is_drag'
       ELSE PanCalls(calls') = <<"set_drag_offset", "store_last_offset">> /\ ~is_drag'
  /\ (IsDrag(msg') /\ (msg'.button # "Middle" \/ IsStop(tool_result'))) =>
       PanCalls(calls') = <<>> /\ is_drag' = is_drag

\* C25: of the middle-button drag events the tool does not stop, every
\* UpdateDrag sets the pending pan offset without persisting it and raises the
\* dragging flag, and the EndDrag sets the offset, persists it and clears the
\* flag; a drag event of another button, or one the tool stops, touches
\* neither the offset nor the flag.
C25_MiddleDragPans == [][C25_Step]_vars

\* A middle-button drag was under way and its EndDrag cleared the flag.
C25_Witness ==
  /\ msg.kind = "Mouse" /\ msg.sub = "EndDrag" /\ msg.button = "Middle"
  /\ PanCalls(calls) = <<"set_drag_offset", "store_last_offset">>
  /\ Count(calls, "set_is_drag(false)") = 1 /\ ~is_drag

C25_StepAsStated ==
  /\ (IsDrag(msg') /\ msg'.button = "Middle") =>
       IF msg'.sub = "UpdateDrag"
       THEN PanCalls(calls') = <<"set_drag_offset">>
       ELSE PanCalls(calls') = <<"set_drag_offset", "store_last_offset">> /\ ~is_drag'
  /\ (IsDrag(msg') /\ msg'.button # "Middle") =>
       PanCalls(calls') = <<>> /\ is_drag' = is_drag

\* C25 as the specification words it: every middle-button UpdateDrag sets the
\* pending offset and every EndDrag persists it and clears the dragging flag,
\* whatever the tool answered.
C25_EveryDragEnds == [][C25_StepAsStated]_vars

BoundTool(m) == IF m.sub = "Commit" /\ m.txt # <<>> THEN cfg.keybinds[m.txt[1]] ELSE "none"

C26_Step ==
  (msg'.kind = "CommitEvent" /\ ~(active_tool = "Text" /\ editing["Text"])) =>
    /\ tool_events' = <<>> /\ calls' = <<>> /\ UNCHANGED board
    /\ BoundTool(msg') # "none" =>
         /\ queue' = Append(queue, ToolSelected(BoundTool(msg')))
         /\ outputs' = <<Output("ToolSwitchShortcut", BoundTool(msg'), 0)>>
    /\ msg'.sub \in {"Preedit", "PreeditEnd"} => queue' = queue /\ outputs' = <<>>

\* C26: with the text not forwarded to the text tool, a committed string whose
\* first character is bound to a tool puts one ToolSelected for that tool on
\* the board's channel and emits one ToolSwitchShortcut and nothing else, also
\* when the character is a digit; nothing reaches a tool as text; Preedit and
\* PreeditEnd leave the channel, the outputs and the board as they were.
C26_ToolSwitchShortcut == [][C26_Step]_vars

\* The digit 3, bound to the rectangle tool, switched the tool and no colour.
C26_Witness ==
  /\ msg.kind = "CommitEvent" /\ msg.txt = <<"3">> /\ cfg.palette_len >= 3
  /\ queue = <<ToolSelected("Rectangle")>>
  /\ outputs = <<Output("ToolSwitchShortcut", "Rectangle", 0)>>

ResetRequest(m) ==
  \/ m.kind = "ToolbarEvent" /\ m.sub = "Reset"
  \/ m.kind = "Key" /\ m.mod = "none" /\ m.key = "Delete"

C27_Step ==
  (ResetRequest(msg') /\ ~(msg'.kind = "Key" /\ IsStop(tool_result'))) =>
    /\ drawables' = <<>> /\ cursor' = 0
    /\ ~editing'[active_tool']
    /\ calls' = IF Answered("handle_deactivated")' THEN <<"commit", "reset", "queue_render">>
                ELSE IF drawables # <<>> THEN <<"reset", "queue_render">>
                ELSE <<"reset">>
    /\ result' = IF Answered("handle_deactivated")' \/ drawables # <<>> THEN Redraw ELSE Unmodified

\* C27: a reset, by the toolbar or by a Delete press the tool does not stop,
\* deactivates the active tool if it has an in-progress edit, committing the
\* edit, and then resets the history in every case: the history is empty
\* afterwards; the result is Redraw, and the refresh is queued, exactly when
\* the deactivation committed a drawable or the history was not empty.
C27_ResetAfterDeactivation == [][C27_Step]_vars

\* The deactivation committed the in-progress edit and the reset removed it.
C27_Witness ==
  /\ ResetRequest(msg) /\ calls = <<"commit", "reset", "queue_render">>
  /\ drawables = <<>> /\ next_id > 1

JobsStarted(kind) == {j \in workers : j.id \in spawned /\ j.kind = kind}

CopyEnded == done.job.kind = "copy" /\ done.outcome.encode

CopyWentThrough == done.outcome.spawn /\ done.outcome.write /\ done.outcome.exit

ExpandedName(template) == IF template = "shot-%Y.png" THEN "shot-2026.png" ELSE template

UpToExit(actions) ==
  LET stops == {i \in 1..Len(actions) : cfg.early_exit \/ actions[i] = "Exit"}
  IN IF stops = {} THEN actions
     ELSE SubSeq(actions, 1, CHOOSE i \in stops : \A k \in stops : i <= k)

C30_Step ==
  delivered' # delivered =>
    /\ msg'.kind = "RenderResult" /\ delivered' = Append(delivered, msg'.actions)
    /\ executed' = UpToExit(msg'.actions)
    /\ msg'.actions # <<>> => executed' # <<>>

\* C30: every render result the board handles has its action list executed,
\* whatever requests have been submitted since the one it answers: each
\* handled result ran its list up to the first exit, and a non-empty list ran
\* at least one action, so every result handled is one executed batch.
C30_EveryResultExecuted == [][C30_Step]_vars

\* Two requests with non-empty lists were submitted before the first result
\* arrived, and the first result has just run its list.
C30_Witness ==
  /\ Len(submitted) = 2 /\ Len(delivered) = 1 /\ submitted[2] # <<>>
  /\ msg.kind = "RenderResult" /\ msg.actions = submitted[1]
  /\ executed = submitted[1] /\ executed # <<>>

\* ------------------------------------------------ the toolbar's save buttons
\* The three save buttons, and between them pointer input that lets the
\* active tool start, go on with or finish an edit.
SaveEvents == {Msg("ToolbarEvent", sub) : sub \in {"SaveFile", "SaveFileAs", "CopyClipboard"}}

SaveButton == \E m \in SaveEvents : Handled(m, queue)

Draw == Handled(MouseMsg("Click", "Primary"), queue)

SpecToolbar == Init /\ [][SaveButton \/ Draw \/ SwitchTool]_vars

SaveAction(sub) ==
  CASE sub = "SaveFile" -> "SaveToFile"
    [] sub = "SaveFileAs" -> "SaveToFileAs"
    [] sub = "CopyClipboard" -> "SaveToClipboard"

C31_Step ==
  (msg' \in SaveEvents) =>
    /\ requested' = <<<<SaveAction(msg'.sub)>>>>
    /\ active_tool' = active_tool /\ ~editing'[active_tool]
    /\ IF editing[active_tool]
       THEN /\ tool_events' = <<<<active_tool, "active:true">>, <<active_tool, "handle_deactivated">>>>
            /\ calls' = <<"commit", "queue_render">> /\ requested_at' = <<1>>
            /\ drawables' = Append(SubSeq(drawables, 1, cursor), next_id) /\ cursor' = cursor + 1
            /\ result' = Redraw
       ELSE /\ tool_events' = <<<<active_tool, "active:false">>>>
            /\ calls' = <<>> /\ requested_at' = <<0>>
            /\ UNCHANGED <<drawables, cursor>>
            /\ result' = Unmodified

\* C31: SaveFile, SaveFileAs and CopyClipboard each ask the active tool
\* whether it is active; an active tool is deactivated and its drawable is
\* committed to the history, and after that one render is requested with the
\* one action of the button; the render is requested in both cases, and the
\* result is Redraw exactly when a drawable was committed.
C31_SaveButtons == [][C31_Step]_vars

\* Save-as found an edit in progress, committed it and then asked for the render.
C31_Witness ==
  /\ msg \in SaveEvents /\ msg.sub = "SaveFileAs"
  /\ calls = <<"commit", "queue_render">> /\ requested_at = <<1>>
  /\ requested = <<<<"SaveToFileAs">>>>

\* ------------------------------------------------------ the toolbar's style
MaxStyle == 1       \* colours, sizes and size factors are 0..MaxStyle

\* Every style event with every value it can carry.
StyleEvents ==
  {StyleMsg(sub, v) : sub \in {"ColorSelected", "SizeSelected", "AnnotationSizeChanged"}, v \in 0..MaxStyle}
  \cup {Msg("ToolbarEvent", "ToggleFill")}

StyleEvent == \E m \in StyleEvents : Handled(m, queue)

SpecStyle == Init /\ [][StyleEvent \/ SwitchTool \/ Draw]_vars

\* The board's style after the style event m.
StyleAfter(m) ==
  CASE m.sub = "ColorSelected" -> [self_style EXCEPT !.color = m.value]
    [] m.sub = "SizeSelected" -> [self_style EXCEPT !.size = m.value]
    [] m.sub = "AnnotationSizeChanged" -> [self_style EXCEPT !.annotation_size_factor = m.value]
    [] m.sub = "ToggleFill" -> [self_style EXCEPT !.fill = ~self_style.fill]

StyleEventsTo(log) == SelectSeq(log, LAMBDA e : e[2] = "StyleChanged")

C32_Step ==
  CASE msg' \in StyleEvents ->
         /\ self_style' = StyleAfter(msg') /\ active_tool' = active_tool
         /\ StyleEventsTo(tool_events') = <<<<active_tool, "StyleChanged">>>>
         /\ style_sent' = <<self_style'>>
    [] IsToolSelected(msg') ->
         /\ self_style' = self_style /\ active_tool' = msg'.tool
         /\ StyleEventsTo(tool_events') = <<<<active_tool', "StyleChanged">>>>
         /\ style_sent' = <<self_style'>>
    [] OTHER ->
         /\ UNCHANGED <<self_style, active_tool>>
         /\ StyleEventsTo(tool_events') = <<>> /\ style_sent' = <<>>

\* C32: a style event writes the one field of the board's style it names (a
\* fill toggle negates the flag, so two restore it) and hands the new style to
\* the active tool; a tool switch hands the unchanged style to the tool it
\* makes active; no other step changes the style or the active tool or hands
\* a style to a tool.  So after the first style event or switch the style the
\* active tool got last is the board's current style.
C32_StyleFollowsBoard == [][C32_Step]_vars

\* After a colour change a fill toggle took the flag back to unset, and the
\* active tool got the style with both.
C32_Witness ==
  /\ msg \in StyleEvents /\ msg.sub = "ToggleFill"
  /\ self_style.color = 1 /\ ~self_style.fill
  /\ style_sent = <<self_style>> /\ tool_events = <<<<active_tool, "StyleChanged">>>>

\* C33: handling one render result emits Exit at most once, and emits nothing
\* when the action list is empty, whether or not early exit is configured.
C33_ExitAtMostOnce ==
  msg.kind = "RenderResult" =>
    /\ Count(outputs, ExitOutput) <= 1
    /\ msg.actions = <<>> => outputs = <<>>

\* Under early exit a result with an empty list was handled and nothing was emitted.
C33_Witness ==
  /\ msg.kind = "RenderResult" /\ msg.actions = <<>> /\ cfg.early_exit
  /\ outputs = <<>> /\ executed = <<>>

\* ----------------------------------------------------------- key releases
\* The release of every key of KeyPresses, with the same symbol, code and
\* modifiers, and pointer input in between so that the history is not empty.
KeyReleases == {[m EXCEPT !.kind = "KeyRelease"] : m \in KeyPresses}

ReleaseInput == \E m \in KeyReleases : Handled(m, queue)

SpecRelease == Init /\ [][ReleaseInput \/ Draw]_vars

C34_Step ==
  msg'.kind = "KeyRelease" =>
    /\ tool_events' = <<<<active_tool, "KeyRelease">>>>
    /\ result' = tool_result'
    /\ requested' = <<>> /\ outputs' = <<>> /\ queue' = queue
    /\ calls' = CASE tool_result'.tag = "Commit" -> <<"commit", "queue_render">>
                  [] tool_result'.tag \in {"Redraw", "RedrawAndStopPropagation"} -> <<"queue_render">>
                  [] OTHER -> <<>>
    /\ tool_result'.tag # "Commit" => UNCHANGED <<drawables, cursor>>
    /\ UNCHANGED <<active_tool, is_drag, self_style>>

\* C34: a key release goes to the active tool and to nothing else: the result
\* is the tool's answer, no render is requested, no output is emitted, and the
\* renderer is called only to commit the tool's drawable and to queue the
\* refresh its answer asks for; no undo, redo, reset, pan or toolbar toggle.
C34_ReleaseNoShortcut == [][C34_Step]_vars

\* Control+z was released with a drawable in the history and nothing was undone.
C34_Witness ==
  /\ msg.kind = "KeyRelease" /\ msg.key = "z" /\ msg.mod = "CONTROL"
  /\ cursor > 0 /\ cursor = Len(drawables)
  /\ tool_result = Unmodified /\ calls = <<>>

\* ------------------------------------------------------------ the window
\* One App instance, a daemon or the standalone window of a client.  Clients
\* send images to the daemon; the sketch board's Exit output (forwarded as
\* AppInput::Exit) and the user's close request can come at any time.
InitWindow ==
  /\ cfg = BoardConfig
  /\ InitBoard("Rectangle")
  /\ queue = <<>>
  /\ stream = NoStream
  /\ parsed = ReadResult("idle", NoImage)
  /\ app_inbox = <<>>
  /\ daemons = NoDaemons /\ calc = NoCalc
  /\ app \in {InitApp} \cup {StandaloneApp(image) : image \in {i \in Pixbufs : i.width <= 2}}

\* The close request reaches the window: from App::update on AppInput::Exit,
\* which calls root.close(), or from the user closing the window.
CloseWindow ==
  /\ app.process = "running" /\ app.window # "closed"
  /\ \E by \in {"Exit", "close_request"} : app' = [close_request(app) EXCEPT !.handled = by]
  /\ UNCHANGED <<board, queue, workers, cfg, observed, renders, stream, parsed, app_inbox, daemons, calc>>

\* The clients send the small images.
SpecWindow ==
  InitWindow /\ [][(Send /\ stream'.image.width <= 2) \/ Accept \/ AppLoad \/ BoardLoad \/ CloseWindow]_vars

C35_Step ==
  /\ app'.is_daemon = app.is_daemon
  /\ app.is_daemon => app'.window # "closed" /\ app'.process = "running"
  /\ (app' # app /\ app'.handled \in {"Exit", "close_request"}) =>
       /\ app'.window = IF app.is_daemon THEN "hidden" ELSE "closed"
       /\ app'.loaded = app.loaded /\ queue' = queue
  /\ Len(app_inbox') < Len(app_inbox) =>
       /\ app.is_daemon /\ app'.window = "visible"
       /\ app'.loaded = Head(app_inbox)
       /\ queue' = Append(queue, Msg("LoadImage", "none"))

\* C35: in a daemon an Exit output and a close request hide the window and
\* leave the process running, the window is never closed, and every LoadImage
\* handled shows the window and sends the image to the sketch board; in any
\* other instance either of the two closes the window.
C35_DaemonHides == [][C35_Step]_vars

\* A daemon that had shown an image was hidden by Exit while the next image
\* was on its way.
C35_Witness ==
  /\ app.is_daemon /\ app.handled = "Exit" /\ app.window = "hidden"
  /\ app.loaded # NoImage /\ app_inbox # <<>> /\ app.process = "running"

\* ------------------------------------------------- starting the daemons
\* run_satty with --daemon, then the listener thread of App::init, one system
\* call at a time; the processes share the socket path and nothing else.
ListeningDaemons == {d \in 1..MaxDaemons : daemons.pc[d] = "listening"}

\* run_satty: UnixStream::connect to the path.  It succeeds when the path
\* names the socket of a process that listens; the process then returns.
DaemonProbe ==
  /\ \E d \in 1..MaxDaemons :
       /\ daemons.pc[d] = "idle"
       /\ daemons' = [daemons EXCEPT !.pc[d] = IF daemons.path \in ListeningDaemons
                                                THEN "exited" ELSE "probed"]
  /\ UNCHANGED <<board, queue, workers, cfg, observed, renders, stream, parsed, app_inbox, app, calc>>

\* `if socket_path.exists() { remove_file }`: in run_satty after the probe,
\* and again in the listener thread before the bind.
DaemonUnlink ==
  /\ \E d \in 1..MaxDaemons :
       /\ daemons.pc[d] \in {"probed", "started"}
       /\ daemons' = [daemons EXCEPT !.pc[d] = IF @ = "probed" THEN "started" ELSE "unlinked",
                                     !.path = 0]
  /\ UNCHANGED <<board, queue, workers, cfg, observed, renders, stream, parsed, app_inbox, app, calc>>

\* UnixListener::bind: it creates the file, and fails when the file exists;
\* the thread then prints the failure and ends, the process goes on.
DaemonBind ==
  /\ \E d \in 1..MaxDaemons :
       /\ daemons.pc[d] = "unlinked"
       /\ daemons' = IF daemons.path = 0
                     THEN [daemons EXCEPT !.pc[d] = "listening", !.path = d]
                     ELSE [daemons EXCEPT !.pc[d] = "unbound"]
  /\ UNCHANGED <<board, queue, workers, cfg, observed, renders, stream, parsed, app_inbox, app, calc>>

\* A daemon is killed (the file stays behind) and can be started again.
DaemonKill ==
  /\ \E d \in 1..MaxDaemons :
       /\ daemons.pc[d] \in {"listening", "unbound", "exited"}
       /\ daemons' = [daemons EXCEPT !.pc[d] = "idle"]
  /\ UNCHANGED <<board, queue, workers, cfg, observed, renders, stream, parsed, app_inbox, app, calc>>

SpecDaemons == InitDaemon /\ [][DaemonProbe \/ DaemonUnlink \/ DaemonBind \/ DaemonKill]_vars

\* C36: at most one daemon at a time has a listener bound for the socket path.
C36_OneDaemon == Cardinality(ListeningDaemons) <= 1

\* The listener has just read a connection; the next one is accepted while
\* the process runs and the listener thread is in its loop.
C37_Step ==
  /\ (stream.open /\ ~stream'.open /\ Truncated(stream.bytes)) =>
       (connects(app') /\ app_inbox' = app_inbox)
  /\ (stream.open /\ ~stream'.open /\ stream.complete) =>
       (connects(app') /\ app_inbox' = Append(app_inbox, stream.image))
  /\ (app_inbox # <<>> /\ app_inbox' # app_inbox /\ stream' = stream) =>
       (app_inbox' = Tail(app_inbox) /\ app'.image_dimensions = <<Head(app_inbox).width, Head(app_inbox).height>>)

\* C37: the listener keeps serving after a bad connection: a truncated stream
\* yields no LoadImage and leaves the listener accepting, a later well-formed
\* stream is parsed and queued as LoadImage behind the images of earlier
\* connections, and the App takes the queued images oldest first.
C37_KeepsServing == [][C37_Step]_vars

\* --------------------------------------------------- a client and the daemon
\* A client has an image and no daemon listens: UnixStream::connect fails,
\* try_send_to_daemon returns false without writing anything.
NoDaemon ==
  /\ ~connects(app)
  /\ ~stream.open
  /\ \E image \in Pixbufs :
       stream' = [open |-> FALSE, bytes |-> <<>>, image |-> image, complete |-> FALSE,
                  client |-> run_satty_client(FALSE)]
  /\ UNCHANGED <<board, queue, workers, cfg, observed, renders, parsed, app_inbox, app, daemons, calc>>

\* A daemon is running, or none is.
InitClient ==
  /\ cfg = BoardConfig
  /\ InitBoard("Rectangle")
  /\ queue = <<>>
  /\ daemons = NoDaemons /\ stream = NoStream /\ parsed = ReadResult("idle", NoImage)
  /\ calc = NoCalc
  /\ app_inbox = <<>>
  /\ app \in {InitApp, [InitApp EXCEPT !.process = "none", !.listener = "none"]}

SpecClient ==
  InitClient /\ [][(Send /\ stream'.image.width <= 2) \/ NoDaemon \/ Accept \/ AppLoad \/ BoardLoad]_vars

C38_Step ==
  /\ (stream' # stream /\ stream'.client # "none" /\ stream.open = stream'.open) =>
       (stream'.client = "standalone" /\ ~connects(app) /\ app_inbox' = app_inbox)
  /\ (~stream.open /\ stream'.open) =>
       (stream'.client = IF stream'.complete THEN "exited" ELSE "standalone")
  /\ (stream.open /\ ~stream'.open) =>
       /\ stream.client = "exited" =>
            (parsed'.tag = "some" /\ app_inbox' = Append(app_inbox, stream.image))
       /\ stream.client = "standalone" => (parsed'.tag = "none" /\ app_inbox' = app_inbox)

\* C38: an image a client was started with is shown by one instance: when
\* try_send_to_daemon returns true the client exits and the daemon's listener
\* sends LoadImage for that image; when it returns false, because nothing
\* listens or a write failed part-way, the client runs its own window and the
\* daemon gets no LoadImage for the image.
C38_OneInstance == [][C38_Step]_vars

\* A client that sent its image has exited and the daemon holds the image.
C38_Witness ==
  JustRead /\ stream.client = "exited" /\ app_inbox = <<stream.image>> /\ stream.image.width = 2

\* ------------------------------------------- the window's size, a key's match
MaxSide == 6        \* pixels a side of the monitor or of the image has
MaxCode == 9        \* hardware codes from 0 up to this one, besides those of the keys

\* `as i32` of the f64 that stands for num / den: the fraction is cut off.
\* The f64 is the result of a division or multiplication that rounds; where
\* the exact value is a whole number the rounded one can lie just below it
\* (`low`), and the cast then gives one less.
as_i32(num, den, low) ==
  IF low /\ num % den = 0 THEN (num \div den) - 1 ELSE num \div den

\* resize_window_initial that never limits the height.
resize_window_initial_keeps_width(monitor, image, low, tie) ==
  IF ~monitor.some THEN image
  ELSE IF 4 * monitor.width > 5 * image[1] /\ 4 * monitor.height > 5 * image[2] THEN image
  ELSE <<as_i32(4 * monitor.width, 5, FALSE),
         as_i32(4 * monitor.width * image[2], 5 * image[1], low)>>

\* resize_window_initial: the size given to set_default_size, for the monitor
\* get_monitor_size found (or none) and self.image_dimensions.  0.8 times a
\* side is 4/5 of it: the f64 product is the whole number when 4/5 of the side
\* is one, and otherwise lies a fifth or more from every whole number, so the
\* comparisons with the image's sides come out as for the fractions.
\* new_height > reduced_monitor_height compares width * image height / image
\* width with height; where the two are equal the rounded quotient falls on
\* either side (`tie`).
resize_window_initial(monitor, image, low, tie) ==
  IF ~monitor.some THEN image
  ELSE IF 4 * monitor.width > 5 * image[1] /\ 4 * monitor.height > 5 * image[2] THEN image
  ELSE IF \/ monitor.width * image[2] > monitor.height * image[1]
          \/ monitor.width * image[2] = monitor.height * image[1] /\ tie
       THEN <<as_i32(4 * monitor.height * image[1], 5 * image[2], low),
              as_i32(4 * monitor.height, 5, FALSE)>>
       ELSE <<as_i32(4 * monitor.width, 5, FALSE),
              as_i32(4 * monitor.width * image[2], 5 * image[1], low)>>

\* is_one_of as the build evaluates it: `self.code as u16 - 8` is computed
\* only when the key symbols differ; below 8 the u16 subtraction overflows,
\* which panics in a build with overflow checks and wraps in one without.
is_one_of_eval(ke, key, evdev, overflow_checks) ==
  IF ke.key = key THEN [value |-> "true", overflow |-> FALSE]
  ELSE IF ke.code % 65536 < 8
       THEN [value |-> IF overflow_checks THEN "panic"
                       ELSE IF (ke.code % 65536) - 8 + 65536 = evdev THEN "true" ELSE "false",
             overflow |-> TRUE]
       ELSE [value |-> IF (ke.code % 65536) - 8 = evdev THEN "true" ELSE "false",
             overflow |-> FALSE]

\* The arguments: a monitor, or none, and an image, with the way the rounding
\* falls; a key event, the key and id it is compared with, and the build.
InitCalc ==
  /\ cfg = BoardConfig
  /\ InitBoard("Rectangle")
  /\ queue = <<>>
  /\ daemons = NoDaemons /\ stream = NoStream /\ parsed = ReadResult("idle", NoImage)
  /\ app_inbox = <<>> /\ app = InitApp
  /\ \/ \E some \in BOOLEAN, w, h, iw, ih \in 1..MaxSide, low, tie \in BOOLEAN :
          /\ ~some => (w = 1 /\ h = 1 /\ ~low /\ ~tie)
          /\ calc = [fn |-> "resize_window_initial", out |-> <<>>,
                     args |-> <<[some |-> some, width |-> w, height |-> h], <<iw, ih>>, low, tie>>]
     \/ \E k \in {"z", "y", "leftarrow", "a"}, code \in 0..MaxCode \cup {EvdevZ + 8, EvdevLeft + 8},
           id \in {<<"z", EvdevZ>>, <<"leftarrow", EvdevLeft>>}, overflow_checks \in BOOLEAN :
          calc = [fn |-> "is_one_of", out |-> <<>>,
                  args |-> <<KeyMsg("Key", k, code, "CONTROL"), id[1], id[2], overflow_checks>>]

\* App::update on LoadImage, and App::init, size the window.
Resize ==
  /\ calc.fn = "resize_window_initial" /\ calc.out = <<>>
  /\ calc' = [calc EXCEPT !.out = <<resize_window_initial(calc.args[1], calc.args[2],
                                                          calc.args[3], calc.args[4])>>]
  /\ UNCHANGED <<board, queue, workers, cfg, observed, renders, stream, parsed, app_inbox, app, daemons>>

\* update() compares a key event with a shortcut's key.
KeyMatch ==
  /\ calc.fn = "is_one_of" /\ calc.out = <<>>
  /\ calc' = [calc EXCEPT !.out = <<is_one_of_eval(calc.args[1], calc.args[2],
                                                   calc.args[3], calc.args[4])>>]
  /\ UNCHANGED <<board, queue, workers, cfg, observed, renders, stream, parsed, app_inbox, app, daemons>>

SpecCalc == InitCalc /\ [][Resize \/ KeyMatch]_vars

Resized == calc.fn = "resize_window_initial" /\ calc.out # <<>> /\ calc.args[1].some

\* C39: for a positive monitor size and image size, resize_window_initial
\* sets the image's size when both sides of the image are strictly below 80%
\* of the monitor's; otherwise a size that is at most 80% of the monitor and
\* at most the image in each dimension and has the image's aspect ratio up to
\* the truncation to whole pixels.
C39_InitialSize ==
  Resized =>
    LET monitor == calc.args[1]
        iw == calc.args[2][1]
        ih == calc.args[2][2]
        w == calc.out[1][1]
        h == calc.out[1][2]
    IN IF 4 * monitor.width > 5 * iw /\ 4 * monitor.height > 5 * ih
       THEN w = iw /\ h = ih
       ELSE /\ 5 * w <= 4 * monitor.width /\ 5 * h <= 4 * monitor.height
            /\ w <= iw /\ h <= ih
            /\ w * ih <= (h + 1) * iw /\ h * iw <= (w + 1) * ih

\* A tall image on a wide monitor was limited by the monitor's height.
C39_Witness ==
  /\ Resized /\ calc.args[1].width = 6 /\ calc.args[1].height = 5
  /\ calc.args[2] = <<3, 6>> /\ calc.out = <<<<2, 4>>>>

\* C40: is_one_of is true exactly when the event's key symbol is the key or
\* its hardware code minus 8 is the id's evdev code, and evaluating it does
\* not overflow or panic, whatever the hardware code.
C40_IsOneOf ==
  (calc.fn = "is_one_of" /\ calc.out # <<>>) =>
    /\ ~calc.out[1].overflow
    /\ calc.out[1].value =
         IF calc.args[1].key = calc.args[2] \/ calc.args[1].code - 8 = calc.args[3]
         THEN "true" ELSE "false"
====
